---- MODULE Spec2Model ----
(***************************************************************************)
(* Vaccination-coverage ingestion pipeline (APM2025/Mess_around).          *)
(*                                                                         *)
(* Text is modelled with TLA+ strings; TLC evaluates Len, SubSeq and \o on *)
(* them, so prefix tests, substring tests, replace and strip are computed  *)
(* character by character as the Python code computes them.                *)
(***************************************************************************)
EXTENDS Integers, Sequences, FiniteSets, TLC

VARIABLES
    db,     \* the store as the loaders' session sees it: dimension and fact tables
    call,   \* the last operation invoked: its name, its inputs and what it returned
    cache,  \* the process-wide matcher's _cache: raw header -> vaccine code or Unmatched
    loads   \* the number of fact-load calls made so far

vars == <<db, call, cache, loads>>

(***************************************************************************)
(* Python str primitives                                                   *)
(***************************************************************************)
Char(s, i) == SubSeq(s, i, i)

\* str.startswith
StartsWith(s, p) == Len(p) <= Len(s) /\ SubSeq(s, 1, Len(p)) = p

\* str.find, 1-based; 0 when sub does not occur
Find(s, sub) ==
    LET hits == {i \in 1..(Len(s) - Len(sub) + 1) : SubSeq(s, i, i + Len(sub) - 1) = sub}
    IN  IF hits = {} THEN 0 ELSE CHOOSE i \in hits : \A j \in hits : i <= j

\* `sub in s`
Contains(s, sub) == \E i \in 1..(Len(s) - Len(sub) + 1) : SubSeq(s, i, i + Len(sub) - 1) = sub

\* str.replace(old, new): every non-overlapping occurrence, left to right
RECURSIVE Replace(_, _, _)
Replace(s, old, new) ==
    LET From(i) ==
            IF i = 0 THEN s
            ELSE SubSeq(s, 1, i - 1) \o new \o Replace(SubSeq(s, i + Len(old), Len(s)), old, new)
    IN  IF old = "" THEN s ELSE From(Find(s, old))

Whitespace == {" ", "\t", "\n", "\r"}

RECURSIVE LStrip(_)
LStrip(s) == IF s # "" /\ Char(s, 1) \in Whitespace THEN LStrip(SubSeq(s, 2, Len(s))) ELSE s

RECURSIVE RStrip(_)
RStrip(s) == IF s # "" /\ Char(s, Len(s)) \in Whitespace THEN RStrip(SubSeq(s, 1, Len(s) - 1)) ELSE s

\* str.strip
Strip(s) == RStrip(LStrip(s))

Digits == {"0", "1", "2", "3", "4", "5", "6", "7", "8", "9"}

\* str.isdigit on one character
IsDigit(c) == c \in Digits

(***************************************************************************)
(* CSV structure types and their configuration                             *)
(***************************************************************************)
NATIONAL == "national"
LOCAL_AUTHORITY == "local_authority"
TIME_SERIES == "time_series"
REGIONAL_TIME_SERIES == "regional_time_series"
SPECIAL_PROGRAM == "special_program"
UNKNOWN == "unknown"

CSVStructureType ==
    {NATIONAL, LOCAL_AUTHORITY, TIME_SERIES, REGIONAL_TIME_SERIES, SPECIAL_PROGRAM, UNKNOWN}

\* identify_csv_type(csv_path): filename is csv_path.name
identify_csv_type(filename) ==
    IF \E prefix \in {"T1_", "T2_", "T3_"} : StartsWith(filename, prefix) THEN NATIONAL
    ELSE IF \E prefix \in {"T4", "T5", "T6"} : StartsWith(filename, prefix) THEN LOCAL_AUTHORITY
    ELSE IF \E prefix \in {"T7_", "T8_"} : StartsWith(filename, prefix) THEN SPECIAL_PROGRAM
    ELSE IF \E prefix \in {"T9_", "T10_", "T11_"} : StartsWith(filename, prefix) THEN TIME_SERIES
    ELSE IF Contains(filename, "T14_") \/ Contains(filename, "T15_") THEN REGIONAL_TIME_SERIES
    ELSE UNKNOWN

\* get_structure_config(csv_type): the entries of the configuration the cleaner
\* reads. configs.get(csv_type, {}) is the empty dict for UNKNOWN, so every
\* later config.get(key, default) yields its default; HasConfig tells the two apart.
HasConfig(csv_type) == csv_type # UNKNOWN

header_indicator_of(csv_type) ==
    CASE csv_type = NATIONAL -> "Geographic area"
      [] csv_type = LOCAL_AUTHORITY -> "Code"
      [] csv_type = TIME_SERIES -> "Financial year"
      [] csv_type = REGIONAL_TIME_SERIES -> "Financial year"
      [] csv_type = SPECIAL_PROGRAM -> "Code"

vaccine_col_start_of(csv_type) ==
    CASE csv_type = NATIONAL -> 3
      [] csv_type = LOCAL_AUTHORITY -> 6
      [] csv_type = TIME_SERIES -> 3
      [] csv_type = REGIONAL_TIME_SERIES -> 2
      [] csv_type = SPECIAL_PROGRAM -> 5

\* "none" stands for the regional variant's header_pattern None
header_pattern_of(csv_type) ==
    CASE csv_type = NATIONAL -> "Coverage at"
      [] csv_type = LOCAL_AUTHORITY -> "Coverage at"
      [] csv_type = TIME_SERIES -> "Coverage of"
      [] csv_type = REGIONAL_TIME_SERIES -> "none"
      [] csv_type = SPECIAL_PROGRAM -> "Coverage at"

(***************************************************************************)
(* Grids as pandas reads them: a grid is a sequence of rows, a row a       *)
(* sequence of cells, a cell a string or NaN (an empty cell).              *)
(***************************************************************************)
NaN == "NaN"

\* isinstance(cell, str)
IsStr(cell) == cell # NaN

\* str(value)
Str(cell) == IF cell = NaN THEN "nan" ELSE cell

UpperLetters == "ABCDEFGHIJKLMNOPQRSTUVWXYZ"
LowerLetters == "abcdefghijklmnopqrstuvwxyz"

RECURSIVE Lower(_)
\* str.lower
Lower(s) ==
    IF s = "" THEN ""
    ELSE LET c == Char(s, 1)
             i == Find(UpperLetters, c)
         IN  (IF i = 0 THEN c ELSE Char(LowerLetters, i)) \o Lower(SubSeq(s, 2, Len(s)))

RECURSIVE IntToStr(_)
\* str(n) for n >= 0
IntToStr(n) ==
    IF n < 10 THEN Char("0123456789", n + 1)
    ELSE IntToStr(n \div 10) \o Char("0123456789", (n % 10) + 1)

\* find_header_row_typed returns None as HeaderNone
HeaderNone == -1

\* the first row (0-based) with a str cell containing one of the indicators, or None
FirstRowWithAny(grid, indicators) ==
    LET hits == {r \in 1..Len(grid) :
                    \E c \in 1..Len(grid[r]) :
                        IsStr(grid[r][c]) /\ \E ind \in indicators : Contains(grid[r][c], ind)}
    IN  IF hits = {} THEN HeaderNone
        ELSE (CHOOSE r \in hits : \A q \in hits : r <= q) - 1

\* find_header_row_typed(csv_path, csv_type)
find_header_row_typed(grid, csv_type) ==
    FirstRowWithAny(grid, {IF HasConfig(csv_type) THEN header_indicator_of(csv_type) ELSE "Geographic"})

\* find_header_row(csv_path, indicator="Geographic"), the untyped locator
find_header_row(grid) ==
    FirstRowWithAny(grid, {"Geographic", "Code", "Local authority", "Geographic area", "Financial year"})

\* pd.read_csv(csv_path, header=h): row h names the columns (an empty header
\* cell is named "Unnamed: <index>"), the rows below it are the data
ReadCsv(grid, h) ==
    [columns |-> [c \in 1..Len(grid[h + 1]) |->
                      IF grid[h + 1][c] = NaN THEN "Unnamed: " \o IntToStr(c - 1)
                      ELSE grid[h + 1][c]],
     rows |-> SubSeq(grid, h + 2, Len(grid))]

VaccinePrefixes ==
    <<"Coverage at 12 months ", "Coverage at 24 months ", "Coverage at 5 years ",
      "Coverage of ", "Number aged 12 months ", "Number aged 24 months ",
      "Number aged 5 years ">>

TypedPrefixes ==
    <<"Coverage at 12 months ", "Coverage at 24 months ", "Coverage at 5 years ",
      "Number aged 12 months ", "Number aged 24 months ">>

RECURSIVE RemoveAll(_, _, _)
\* for prefix in prefixes: result = result.replace(prefix, '')
RemoveAll(s, prefixes, i) ==
    IF i > Len(prefixes) THEN s ELSE RemoveAll(Replace(s, prefixes[i], ""), prefixes, i + 1)

\* the suffix removals with ' Prim' left in place
RemoveSuffixesPercentOnly(s) == Replace(Replace(s, " (%)", ""), "(%)", "")

\* the suffix removals shared by the header cleaners
RemoveSuffixes(s) == Replace(Replace(Replace(s, " Prim", ""), " (%)", ""), "(%)", "")

\* extract_vaccine_name(header)
extract_vaccine_name(header) ==
    LET Named(result) == Strip(IF Contains(Lower(result), "rotavirus") THEN "Rotavirus" ELSE result)
    IN  Named(RemoveSuffixes(RemoveAll(header, VaccinePrefixes, 1)))

\* extract_vaccine_name_typed(header, csv_type)
extract_vaccine_name_typed(header, csv_type) ==
    LET Named(result) == IF Contains(Lower(result), "rotavirus") THEN "Rotavirus" ELSE result
        Stripped(header_pattern) ==
            IF header_pattern = "Coverage of" THEN Replace(header, "Coverage of ", "")
            ELSE IF header_pattern = "Coverage at" THEN RemoveAll(header, TypedPrefixes, 1)
            ELSE header
    IN  Named(Strip(RemoveSuffixes(
            Stripped(IF HasConfig(csv_type) THEN header_pattern_of(csv_type) ELSE "Coverage at"))))

\* re.match(r'^[ESWN]\d{8}', s)
MatchesAreaCode(s) ==
    /\ Len(s) >= 9
    /\ Char(s, 1) \in {"E", "S", "W", "N"}
    /\ \A i \in 2..9 : IsDigit(Char(s, i))

\* re.match(r'^\d{4}-\d{4}$', s)
MatchesYearDash(s) ==
    /\ Len(s) = 9
    /\ Char(s, 5) = "-"
    /\ \A i \in {1, 2, 3, 4, 6, 7, 8, 9} : IsDigit(Char(s, i))

HeaderKeywords ==
    {"Geographic", "Coverage", "Financial year", "Local authority",
     "Number aged", "Evaluation", "Code", "Unnamed"}

Countries == {"United Kingdom", "England", "Scotland", "Wales", "Northern Ireland"}

\* the typed row test with the shape tests put before the keyword rejection
is_data_row_typed_ShapeFirst(row, csv_type) ==
    LET Shaped(value, value_str) ==
            IF value = NaN \/ value_str = "" THEN FALSE
            ELSE IF csv_type \in {LOCAL_AUTHORITY, SPECIAL_PROGRAM} /\ MatchesAreaCode(value_str)
                 THEN TRUE
            ELSE IF csv_type = NATIONAL /\ value_str \in Countries THEN TRUE
            ELSE IF \E keyword \in HeaderKeywords : Contains(value_str, keyword) THEN FALSE
            ELSE IF csv_type \in {TIME_SERIES, REGIONAL_TIME_SERIES}
                 THEN Contains(value_str, " to ") \/ MatchesYearDash(value_str)
            ELSE FALSE
    IN  Shaped(row[1], Strip(Str(row[1])))

\* is_data_row_typed(row, csv_type, first_col_name): value is the first cell
is_data_row_typed(row, csv_type) ==
    LET value == row[1]
        value_str == Strip(Str(value))
    IN  IF value = NaN \/ value_str = "" THEN FALSE
        ELSE IF \E keyword \in HeaderKeywords : Contains(value_str, keyword) THEN FALSE
        ELSE IF csv_type = LOCAL_AUTHORITY THEN MatchesAreaCode(value_str)
        ELSE IF csv_type = NATIONAL THEN value_str \in Countries
        ELSE IF csv_type \in {TIME_SERIES, REGIONAL_TIME_SERIES}
             THEN Contains(value_str, " to ") \/ MatchesYearDash(value_str)
        ELSE IF csv_type = SPECIAL_PROGRAM THEN MatchesAreaCode(value_str)
        ELSE FALSE

\* is_data_row(row): the untyped row classifier. A NaN cell is neither None nor
\* an empty str, so it is taken as the first non-empty cell and reads "nan".
is_data_row(row) ==
    LET FirstOf(nonEmpty) ==
            IF nonEmpty = {} THEN ""
            ELSE Strip(Str(row[CHOOSE i \in nonEmpty : \A j \in nonEmpty : i <= j]))
        IsData(first_cell) ==
            IF Len(row) = 0 \/ first_cell = "" THEN FALSE
            ELSE IF \E keyword \in HeaderKeywords : Contains(first_cell, keyword) THEN FALSE
            ELSE IF MatchesAreaCode(first_cell) THEN TRUE
            ELSE IF Contains(first_cell, " to ") /\ \E i \in 1..Len(first_cell) : IsDigit(Char(first_cell, i))
                 THEN TRUE
            ELSE IF MatchesYearDash(first_cell) THEN TRUE
            ELSE first_cell \in Countries
    IN  IsData(FirstOf({i \in 1..Len(row) : ~(IsStr(row[i]) /\ Strip(row[i]) = "")}))

\* SelectSeq with a two-argument test
RECURSIVE FilterRows(_, _, _)
FilterRows(rows, csv_type, i) ==
    IF i > Len(rows) THEN <<>>
    ELSE (IF is_data_row_typed(rows[i], csv_type) THEN <<rows[i]>> ELSE <<>>)
         \o FilterRows(rows, csv_type, i + 1)

RECURSIVE RegionColumns(_, _)
\* the region columns of a regional time series sheet, from 0-based col_idx on
RegionColumns(columns, col_idx) ==
    IF col_idx >= Len(columns) THEN <<>>
    ELSE LET region_name == Strip(columns[col_idx + 1])
         IN  (IF Contains(Lower(region_name), "note") \/ region_name = "" THEN <<>>
              ELSE <<[col_idx |-> col_idx, header |-> region_name, name |-> region_name]>>)
             \o RegionColumns(columns, col_idx + 1)

RECURSIVE VaccineColumns(_, _, _)
\* the vaccine columns of the other sheets, from 0-based col_idx on
VaccineColumns(columns, csv_type, col_idx) ==
    IF col_idx >= Len(columns) THEN <<>>
    ELSE LET Column(header, vaccine_name) ==
                 IF \E skip \in {"Note", "Unnamed", "nan"} : Contains(header, skip) THEN <<>>
                 ELSE IF vaccine_name = "" THEN <<>>
                 ELSE <<[col_idx |-> col_idx, header |-> header, name |-> vaccine_name]>>
         IN  Column(columns[col_idx + 1], extract_vaccine_name_typed(columns[col_idx + 1], csv_type))
             \o VaccineColumns(columns, csv_type, col_idx + 1)

\* load_cleaned_csv_typed(csv_path) -> (df_filtered, vaccine_columns, csv_type);
\* header_row is the local header_row_idx before the fallback to 0
load_cleaned_csv_typed(file) ==
    LET Frame(csv_type, found, df) ==
            [df |-> [columns |-> df.columns, rows |-> FilterRows(df.rows, csv_type, 1)],
             vaccine_columns |->
                 IF csv_type = REGIONAL_TIME_SERIES
                 THEN RegionColumns(df.columns, vaccine_col_start_of(csv_type))
                 ELSE VaccineColumns(df.columns, csv_type,
                                     IF HasConfig(csv_type) THEN vaccine_col_start_of(csv_type) ELSE 3),
             csv_type |-> csv_type,
             header_row |-> found]
        Read(csv_type, found) ==
            Frame(csv_type, found, ReadCsv(file.grid, IF found = HeaderNone THEN 0 ELSE found))
        Typed(csv_type) == Read(csv_type, find_header_row_typed(file.grid, csv_type))
    IN  Typed(identify_csv_type(file.name))

\* load_cleaned_csv(csv_path, sheet_type): the untyped cleaner; sheet_type is ignored
load_cleaned_csv(file) ==
    LET FirstName(df, first_values) ==
            IF Len(df.columns) > 0 /\ Len(first_values) > 0
            THEN (IF MatchesAreaCode(Strip(first_values[1])) THEN "area_code" ELSE "area_name")
            ELSE df.columns[1]
        Frame(df, first_name, data_rows) ==
            IF data_rows = <<>> THEN [columns |-> <<>>, rows |-> <<>>]
            ELSE [columns |-> [c \in 1..Len(df.columns) |-> IF c = 1 THEN first_name ELSE df.columns[c]],
                  rows |-> data_rows]
        Kept(df) ==
            Frame(df,
                  FirstName(df, SelectSeq([i \in 1..Len(df.rows) |-> df.rows[i][1]], LAMBDA v : v # NaN)),
                  SelectSeq(df.rows, is_data_row))
        Read(found) == Kept(ReadCsv(file.grid, IF found = HeaderNone THEN 0 ELSE found))
    IN  Read(find_header_row(file.grid))

(***************************************************************************)
(* Cell values.  A parsed number is [kind, m, e] and stands for m / 10^e   *)
(* with e minimal; None is a record of its own so that any two values can  *)
(* be compared.                                                            *)
(***************************************************************************)
None == [kind |-> "none"]

RECURSIVE Pow10(_)
Pow10(n) == IF n = 0 THEN 1 ELSE 10 * Pow10(n - 1)

RECURSIVE DigitsValue(_)
\* the number a string of decimal digits denotes
DigitsValue(s) ==
    IF s = "" THEN 0
    ELSE 10 * DigitsValue(SubSeq(s, 1, Len(s) - 1)) + (Find("0123456789", Char(s, Len(s))) - 1)

AllDigits(s) == \A i \in 1..Len(s) : IsDigit(Char(s, i))

RECURSIVE Normalize(_, _)
\* the same number with no trailing zero in the fraction
Normalize(m, e) ==
    IF e > 0 /\ m % 10 = 0 THEN Normalize(m \div 10, e - 1) ELSE [m |-> m, e |-> e]

\* the sign and the unsigned part of a numeral
SignOf(s) == IF s # "" /\ Char(s, 1) = "-" THEN -1 ELSE 1
Unsigned(s) == IF s # "" /\ Char(s, 1) \in {"-", "+"} THEN SubSeq(s, 2, Len(s)) ELSE s

\* int(value_str) with 0 returned where int() raises
ParseIntOrZero(s) ==
    LET Parsed(u) ==
            IF u # "" /\ AllDigits(u)
            THEN [kind |-> "int", m |-> SignOf(s) * DigitsValue(u), e |-> 0]
            ELSE [kind |-> "int", m |-> 0, e |-> 0]
    IN  Parsed(Unsigned(s))

\* int(value_str): an optional sign and decimal digits, else ValueError (None)
ParseInt(s) ==
    LET u == Unsigned(s)
    IN  IF u # "" /\ AllDigits(u)
        THEN [kind |-> "int", m |-> SignOf(s) * DigitsValue(u), e |-> 0]
        ELSE None

\* float(value_str) for plain decimal numerals: an optional sign, digits, one
\* point, digits, with a digit on at least one side; else ValueError (None)
ParseFloat(s) ==
    LET Float(n) == [kind |-> "float", m |-> n.m, e |-> n.e]
        Parts(whole, frac) ==
            IF AllDigits(whole) /\ AllDigits(frac) /\ whole \o frac # ""
            THEN Float(Normalize(SignOf(s) * DigitsValue(whole \o frac), Len(frac)))
            ELSE None
        Split(u, dot) ==
            IF dot # 0 THEN Parts(SubSeq(u, 1, dot - 1), SubSeq(u, dot + 1, Len(u))) ELSE None
        Numeral(u) == Split(u, Find(u, "."))
    IN  Numeral(Unsigned(s))

\* decimal_places is None
NoRounding == -1

\* the bits of a double's significand
SignificandBits == 53

RECURSIVE BitLength(_)
BitLength(n) == IF n = 0 THEN 0 ELSE 1 + BitLength(n \div 2)

RECURSIVE TailOfFraction(_, _, _, _)
\* the binary expansion of r / den (r < den) cut after bits_left further
\* significant bits (started: a 1 bit was seen; last: the bit before): how the
\* cut-off rest compares with half a unit in the last place, and that last bit
TailOfFraction(r, den, bits_left, seen) ==
    IF seen.started /\ bits_left = 0
    THEN [rest |-> IF r = 0 THEN "none" ELSE IF 2 * r < den THEN "below"
                   ELSE IF 2 * r > den THEN "above" ELSE "half",
          last |-> seen.last]
    ELSE IF r = 0 THEN [rest |-> "none", last |-> 0]
    ELSE IF 2 * r >= den
         THEN TailOfFraction(2 * r - den, den, bits_left - 1,
                             [started |-> TRUE, last |-> 1])
         ELSE TailOfFraction(2 * r, den, IF seen.started THEN bits_left - 1 ELSE bits_left,
                             [started |-> seen.started, last |-> 0])

\* float(text) against the decimal mag / 10^e it was read from: -1 when the
\* nearest double is below it, 1 when above, 0 when the double holds it exactly
FloatError(mag, e) ==
    LET Sign(tail) ==
            CASE tail.rest = "none" -> 0
              [] tail.rest = "below" -> -1
              [] tail.rest = "above" -> 1
              [] tail.rest = "half" -> IF tail.last = 1 THEN 1 ELSE -1
        Whole(whole, r, den) ==
            Sign(TailOfFraction(r, den, SignificandBits - BitLength(whole),
                                [started |-> whole > 0, last |-> whole % 2]))
    IN  Whole(mag \div Pow10(e), mag % Pow10(e), Pow10(e))

\* round(num, decimal_places) if decimal_places is not None, on a parsed float (None
\* when float() raised): the multiple of 10^-decimal_places nearest to the
\* double; when the decimal read lies halfway, the side the double lies on,
\* and the even neighbour when the double holds the halfway value exactly
Round(num, decimal_places) ==
    IF num = None \/ decimal_places = NoRounding THEN num
    ELSE IF num.e <= decimal_places THEN num
    ELSE LET Float(n) == [kind |-> "float", m |-> n.m, e |-> n.e]
             Tie(q, error) ==
                 IF error > 0 THEN TRUE ELSE IF error < 0 THEN FALSE ELSE q % 2 = 1
             Up(q, r, unit, mag) ==
                 IF 2 * r > unit THEN TRUE
                 ELSE IF 2 * r < unit THEN FALSE
                 ELSE Tie(q, FloatError(mag, num.e))
             Nearest(q, r, unit, mag) ==
                 Float(Normalize((IF num.m < 0 THEN -1 ELSE 1) * (IF Up(q, r, unit, mag) THEN q + 1 ELSE q),
                                 decimal_places))
             Scaled(mag, unit) == Nearest(mag \div unit, mag % unit, unit, mag)
         IN  Scaled(IF num.m < 0 THEN -num.m ELSE num.m, Pow10(num.e - decimal_places))

\* clean_numeric_value(value, decimal_places): the value returned without return_range
clean_numeric_value(value, decimal_places) ==
    LET Number(value_str, no_commas, as_float, as_int) ==
            IF value = NaN THEN None
            ELSE IF value_str \in {"[z]", "[c]", "[x]", "", "nan"} THEN None
            ELSE IF Contains(value_str, "to") /\ Contains(value_str, "%") THEN None
            ELSE IF Contains(no_commas, ".") THEN as_float
            ELSE as_int
    IN  Number(Strip(Str(value)),
               Replace(Strip(Str(value)), ",", ""),
               Round(ParseFloat(Replace(Strip(Str(value)), ",", "")), decimal_places),
               ParseInt(Replace(Strip(Str(value)), ",", "")))

\* a range text of None, kept apart from every cell text
NoRangeText == "None"

\* clean_numeric_value(value, decimal_places, return_range=True): the pair
\* (value, range_text) returned
clean_numeric_value_range(value, decimal_places) ==
    LET Pair(value_str) ==
            IF value = NaN THEN <<None, NoRangeText>>
            ELSE IF value_str \in {"[z]", "[c]", "[x]", "", "nan"} THEN <<None, NoRangeText>>
            ELSE IF Contains(value_str, "to") /\ Contains(value_str, "%") THEN <<None, value_str>>
            ELSE <<clean_numeric_value(value, decimal_places), NoRangeText>>
    IN  Pair(Strip(Str(value)))

\* val > bound, for a parsed number and an integer bound
GreaterThan(val, bound) == val.m > bound * Pow10(val.e)

\* 0 <= val <= 100
InPercentRange(val) == val.m >= 0 /\ val.m <= 100 * Pow10(val.e)

\* truthiness of a cleaned value: not None and not zero
Truthy(val) == val # None /\ val.m # 0

(***************************************************************************)
(* Vaccine matching                                                        *)
(***************************************************************************)
CANONICAL_VACCINES ==
    <<[vaccine_code |-> "DTaP_IPV_Hib_HepB", vaccine_name |-> "DTaP/IPV/Hib/HepB",
       aliases |-> <<"DTaP/IPV/Hib/HepB Prim", "DTaP IPV Hib HepB">>],
      [vaccine_code |-> "DTaP_IPV_Hib", vaccine_name |-> "DTaP/IPV/Hib",
       aliases |-> <<"DTaP/IPV/Hib Prim">>],
      [vaccine_code |-> "MMR1", vaccine_name |-> "MMR1", aliases |-> <<"MMR 1", "MMR dose 1">>],
      [vaccine_code |-> "MMR2", vaccine_name |-> "MMR2", aliases |-> <<"MMR 2", "MMR dose 2">>],
      [vaccine_code |-> "PCV1", vaccine_name |-> "PCV1", aliases |-> <<"PCV 1", "PCV dose 1", "PCV">>],
      [vaccine_code |-> "PCV_booster", vaccine_name |-> "PCV Booster",
       aliases |-> <<"PCV booster", "PCV boos">>],
      [vaccine_code |-> "Rota", vaccine_name |-> "Rotavirus", aliases |-> <<"rota", "Rota">>],
      [vaccine_code |-> "MenB", vaccine_name |-> "MenB", aliases |-> <<>>],
      [vaccine_code |-> "MenB_booster", vaccine_name |-> "MenB Booster",
       aliases |-> <<"MenB booster", "MenB boos">>],
      [vaccine_code |-> "Hib_MenC_booster", vaccine_name |-> "Hib/MenC Booster",
       aliases |-> <<"Hib/MenC booster", "Hib MenC booster">>],
      [vaccine_code |-> "dTaP_IPV_booster", vaccine_name |-> "dTaP/IPV Booster",
       aliases |-> <<"dTaP/IPV booster", "DTaP/IPV booster">>],
      [vaccine_code |-> "HepB", vaccine_name |-> "Hepatitis B", aliases |-> <<"HepB", "Hep B">>],
      [vaccine_code |-> "BCG", vaccine_name |-> "BCG", aliases |-> <<>>]>>

\* the matcher's result None
Unmatched == "None"

\* _exact_match_index[cleaned], Unmatched when cleaned is not a key
ExactMatch(cleaned) ==
    LET hits == {i \in 1..Len(CANONICAL_VACCINES) : CANONICAL_VACCINES[i].vaccine_name = cleaned}
    IN  IF hits = {} THEN Unmatched
        ELSE CANONICAL_VACCINES[CHOOSE i \in hits : \A j \in hits : i >= j].vaccine_code

\* _alias_index[cleaned]: a later vaccine's alias overwrites an earlier one
AliasMatch(cleaned) ==
    LET hits == {i \in 1..Len(CANONICAL_VACCINES) :
                    \E k \in 1..Len(CANONICAL_VACCINES[i].aliases) :
                        CANONICAL_VACCINES[i].aliases[k] = cleaned}
    IN  IF hits = {} THEN Unmatched
        ELSE CANONICAL_VACCINES[CHOOSE i \in hits : \A j \in hits : i >= j].vaccine_code

\* VaccineMatcher._clean_header(header)
clean_header(header) ==
    LET Named(cleaned) == Strip(IF Contains(Lower(cleaned), "rotavirus") THEN "Rotavirus" ELSE cleaned)
    IN  Named(RemoveSuffixes(RemoveAll(Strip(header), VaccinePrefixes, 1)))

RECURSIVE CommonLen(_, _, _, _)
\* the length of the longest common run of a from i and b from j
CommonLen(a, b, i, j) ==
    IF i > Len(a) \/ j > Len(b) \/ Char(a, i) # Char(b, j) THEN 0
    ELSE 1 + CommonLen(a, b, i + 1, j + 1)

\* SequenceMatcher.find_longest_match over the whole of a and b: the longest
\* block, of those the one starting earliest in a, of those earliest in b
LongestMatch(a, b) ==
    LET Largest(sizes) == CHOOSE n \in sizes : \A m \in sizes : n >= m
        Smallest(starts) == CHOOSE n \in starts : \A m \in starts : n <= m
        InB(blocks, k, i) ==
            [i |-> i, j |-> Smallest({x.j : x \in {y \in blocks : y.k = k /\ y.i = i}}), k |-> k]
        InA(blocks, k) == InB(blocks, k, Smallest({x.i : x \in {y \in blocks : y.k = k}}))
        Longest(blocks) == InA(blocks, Largest({x.k : x \in blocks}))
    IN  IF a = "" \/ b = "" THEN [i |-> 1, j |-> 1, k |-> 0]
        ELSE Longest({[i |-> i, j |-> j, k |-> CommonLen(a, b, i, j)] : i \in 1..Len(a), j \in 1..Len(b)})

RECURSIVE MatchingChars(_, _)
\* the total size of SequenceMatcher.get_matching_blocks
MatchingChars(a, b) ==
    LET Around(x) ==
            IF x.k = 0 THEN 0
            ELSE MatchingChars(SubSeq(a, 1, x.i - 1), SubSeq(b, 1, x.j - 1)) + x.k
                 + MatchingChars(SubSeq(a, x.i + x.k, Len(a)), SubSeq(b, x.j + x.k, Len(b)))
    IN  Around(LongestMatch(a, b))

\* SequenceMatcher(None, a, b).ratio() as the fraction num / den (1.0 for two empty strings)
Ratio(a, b) ==
    IF Len(a) + Len(b) = 0 THEN [num |-> 1, den |-> 1]
    ELSE [num |-> 2 * MatchingChars(a, b), den |-> Len(a) + Len(b)]

\* threshold = 0.8 as the fraction 4 / 5
ThresholdNum == 4
ThresholdDen == 5

RECURSIVE FuzzyScan(_, _, _, _)
\* the loop of _fuzzy_match from canonical vaccine i on, with the best so far
FuzzyScan(text, i, best_match, best_ratio) ==
    IF i > Len(CANONICAL_VACCINES) THEN best_match
    ELSE LET Compared(ratio) ==
                 IF /\ ratio.num * best_ratio.den > best_ratio.num * ratio.den
                    /\ ratio.num * ThresholdDen >= ThresholdNum * ratio.den
                 THEN FuzzyScan(text, i + 1, CANONICAL_VACCINES[i].vaccine_code, ratio)
                 ELSE FuzzyScan(text, i + 1, best_match, best_ratio)
         IN  Compared(Ratio(Lower(text), Lower(CANONICAL_VACCINES[i].vaccine_name)))

RECURSIVE FuzzyScanAnyScore(_, _, _, _)
\* the loop of _fuzzy_match without the threshold test
FuzzyScanAnyScore(text, i, best_match, best_ratio) ==
    IF i > Len(CANONICAL_VACCINES) THEN best_match
    ELSE LET Compared(ratio) ==
                 IF ratio.num * best_ratio.den > best_ratio.num * ratio.den
                 THEN FuzzyScanAnyScore(text, i + 1, CANONICAL_VACCINES[i].vaccine_code, ratio)
                 ELSE FuzzyScanAnyScore(text, i + 1, best_match, best_ratio)
         IN  Compared(Ratio(Lower(text), Lower(CANONICAL_VACCINES[i].vaccine_name)))

\* _fuzzy_match returning the best-scoring vaccine whatever its score
fuzzy_match_AnyScore(text) == FuzzyScanAnyScore(text, 1, Unmatched, [num |-> 0, den |-> 1])

\* VaccineMatcher._fuzzy_match(text)
fuzzy_match(text) == FuzzyScan(text, 1, Unmatched, [num |-> 0, den |-> 1])

\* VaccineMatcher.match(header_text) on a cache miss
MatchUncached(header_text) ==
    LET First(exact, alias, fuzzy) ==
            IF exact # Unmatched THEN exact
            ELSE IF alias # Unmatched THEN alias
            ELSE fuzzy
    IN  First(ExactMatch(clean_header(header_text)),
              AliasMatch(clean_header(header_text)),
              fuzzy_match(clean_header(header_text)))

(***************************************************************************)
(* The empty store, as create_test_session leaves it                       *)
(***************************************************************************)
EmptyDb ==
    [areas |-> {}, vaccines |-> {}, cohorts |-> {}, years |-> {},
     national_coverage |-> <<>>, local_authority_coverage |-> <<>>,
     england_time_series |-> <<>>, regional_time_series |-> <<>>,
     special_programs |-> <<>>]

NoCall == [op |-> "none", file |-> "none"]

(***************************************************************************)
(* Source sheets and directories                                           *)
(***************************************************************************)
\* the number of fact-load calls explored
MaxLoads == 2

\* the header row the special-programme loader reads each sheet with
HepBHeaderRow == 10
BCGHeaderRow == 8

\* a data/csv_data without the T4a sheet
NoSheet == [name |-> "", grid |-> <<>>]

\* a csv_path that does not exist
NoDir == [exists |-> FALSE]

DatasetName(table) == "cover-anual-data-tables-2024-to-2025_" \o table \o ".csv"

\* the coverage cells a sheet may carry for its varying record
CoverageCells == {"95.5", "150"}

NationalSheet(cell) ==
    [name |-> DatasetName("T1_UK12m"),
     grid |-> << <<"Table 1: coverage at 12 months", NaN, NaN, NaN, NaN>>,
                 <<"Geographic area", "Notes", "Number aged 12 months",
                   "Coverage at 12 months MMR1 (%)", "Coverage at 12 months Rotavirus (%)">>,
                 <<"United Kingdom", NaN, "700,000", "91.9", "90.0">>,
                 <<"England", NaN, "668,160", cell, "[c]">> >>]

LocalHeader ==
    <<"Code", "Local authority", "Region name", "ODS code",
      "Number aged 12 months", "Coverage at 12 months MMR1 (%)">>

\* the 'a' sheet and the 'b' sheet of one cohort
LocalPair(pct_cell, cnt_cell) ==
    << [name |-> DatasetName("T4a_UTLA12m"),
        grid |-> << <<"Table 4a", NaN, NaN, NaN, NaN, NaN>>, LocalHeader,
                    <<"E06000001", "Hartlepool", "North East", "A01", "500", pct_cell>> >>],
       [name |-> DatasetName("T4b_UTLA12m"),
        grid |-> << <<"Table 4b", NaN, NaN, NaN, NaN, NaN>>, LocalHeader,
                    <<"E06000001", "Hartlepool", "North East", "A01", "500", cnt_cell>> >>] >>

LocalPairs == {LocalPair("95.5", "450"), LocalPair("[c]", "[c]")}

EnglandSheet(cell) ==
    [name |-> DatasetName("T9_Eng12m"),
     grid |-> << <<"Table 9", NaN, NaN>>,
                 <<"Financial year", "Notes", "MMR1">>,
                 <<"2008 to 2009", NaN, "80.1">>,
                 <<"2023 to 2024", NaN, cell>> >>]

RegionalSheet(cell) ==
    [name |-> DatasetName("T14_RegDTaP24m"),
     grid |-> << <<"Table 14", NaN, NaN, NaN, NaN>>,
                 <<"Financial year", "Notes", "England", "North East", "Narnia">>,
                 <<"2023 to 2024", NaN, "92.1", cell, "90.2">> >>]

SpecialPreamble == [i \in 1..BCGHeaderRow |-> <<"Table 8", NaN, NaN, NaN, NaN>>]

SpecialSheet(cell) ==
    [name |-> DatasetName("T8_UTLABCG"),
     grid |-> SpecialPreamble \o
              << <<"Code", "Local authority", "Number aged 12 months eligible",
                   "Number aged 12 months vaccinated", "Coverage at 12 months (%)">>,
                 <<"E06000099", "Nowhere", "40", "30", "75.0">>,
                 <<"E92000001", "England", "50", "45", cell>> >> ]

\* a csv_path holding one sheet of every group
Dir(cell) ==
    [exists |-> TRUE,
     national |-> <<NationalSheet(cell)>>,
     local_authority |-> <<LocalPair("95.5", "450")>>,
     england |-> <<EnglandSheet(cell)>>,
     regional |-> <<RegionalSheet(cell)>>,
     special |-> <<SpecialSheet(cell)>>]

Dirs == {Dir("95.5"), NoDir}

\* what data/csv_data holds for load_geographic_areas: no T4a sheet, or one
UtlaSheets == {NoSheet, LocalPair("95.5", "450")[1]}

(***************************************************************************)
(* The matcher behind match_vaccine_from_header, with its cache            *)
(***************************************************************************)
\* the sheets the loaders are run on
SourceSheets ==
    {NationalSheet(cell) : cell \in CoverageCells}
    \cup UNION {{pair[1], pair[2]} : pair \in LocalPairs}
    \cup {EnglandSheet(cell) : cell \in CoverageCells}
    \cup (UtlaSheets \ {NoSheet})

\* the cleaners and the matcher are functions of the sheet alone: their results
\* over the source sheets, computed once, as sets of <<argument, result>>
CleanedSheets == {<<file, load_cleaned_csv(file)>> : file \in SourceSheets}

RegionalSheets == {RegionalSheet(cell) : cell \in CoverageCells}

TypedSheets == {<<file, load_cleaned_csv_typed(file)>> : file \in RegionalSheets}

SheetHeaders ==
    UNION {{p[2].columns[i] : i \in 1..Len(p[2].columns)} : p \in CleanedSheets}

MatchedHeaders == {<<header_text, MatchUncached(header_text)>> : header_text \in SheetHeaders}

Cleaned(file) ==
    IF file \in SourceSheets THEN (CHOOSE p \in CleanedSheets : p[1] = file)[2]
    ELSE load_cleaned_csv(file)

CleanedTyped(file) ==
    IF file \in RegionalSheets THEN (CHOOSE p \in TypedSheets : p[1] = file)[2]
    ELSE load_cleaned_csv_typed(file)

Resolve(header_text) ==
    IF header_text \in SheetHeaders THEN (CHOOSE p \in MatchedHeaders : p[1] = header_text)[2]
    ELSE MatchUncached(header_text)

\* VaccineMatcher.match(header_text) against the cache c
Match(c, header_text) ==
    IF header_text \in DOMAIN c THEN c[header_text] ELSE Resolve(header_text)

\* the cache written only for the headers that resolved
CacheAfterResolved(c, headers) ==
    [h \in (DOMAIN c) \cup {x \in headers : Match(c, x) # Unmatched} |-> Match(c, h)]

\* the cache after match was called on every header of the set
CacheAfter(c, headers) ==
    [h \in (DOMAIN c) \cup headers |-> Match(c, h)]

(***************************************************************************)
(* Reference data                                                          *)
(***************************************************************************)
CountryAreas ==
    {[area_code |-> "E92000001", area_name |-> "England", area_type |-> "country"],
     [area_code |-> "S92000003", area_name |-> "Scotland", area_type |-> "country"],
     [area_code |-> "W92000004", area_name |-> "Wales", area_type |-> "country"],
     [area_code |-> "N92000002", area_name |-> "Northern Ireland", area_type |-> "country"]}

RegionAreas ==
    {[area_code |-> "E12000001", area_name |-> "North East", area_type |-> "region"],
     [area_code |-> "E12000002", area_name |-> "North West", area_type |-> "region"],
     [area_code |-> "E12000003", area_name |-> "Yorkshire and The Humber", area_type |-> "region"],
     [area_code |-> "E12000004", area_name |-> "East Midlands", area_type |-> "region"],
     [area_code |-> "E12000005", area_name |-> "West Midlands", area_type |-> "region"],
     [area_code |-> "E12000006", area_name |-> "East of England", area_type |-> "region"],
     [area_code |-> "E12000007", area_name |-> "London", area_type |-> "region"],
     [area_code |-> "E12000008", area_name |-> "South East", area_type |-> "region"],
     [area_code |-> "E12000009", area_name |-> "South West", area_type |-> "region"]}

\* the number of placeholder UTLAs made up when no UTLA is read from the T4a sheet
PlaceholderUtlas == 150

\* f'{i:03d}'
Pad3(i) == (IF i < 10 THEN "00" ELSE IF i < 100 THEN "0" ELSE "") \o IntToStr(i)

\* the placeholder UTLAs E10000001 .. E10000150
SyntheticUtlas ==
    {[area_code |-> "E10000" \o Pad3(i), area_name |-> "UTLA_" \o Pad3(i), area_type |-> "utla"] :
        i \in 1..PlaceholderUtlas}

\* the UTLA prefix test shared by load_geographic_areas and the local-authority loader
IsUtlaCode(area_code) ==
    \E p \in {"E06", "E08", "E09", "E10"} : StartsWith(area_code, p)

\* the UTLAs read from the T4a sheet
UtlasOfSheet(sheet) ==
    IF sheet = NoSheet THEN <<>>
    ELSE LET Utlas(kept) ==
                 [i \in 1..Len(kept) |->
                     [area_code |-> kept[i][1],
                      area_name |-> IF Len(kept[i]) > 1 THEN Str(kept[i][2]) ELSE "UTLA_" \o kept[i][1],
                      area_type |-> "utla"]]
         IN  Utlas(SelectSeq(Cleaned(sheet).rows, LAMBDA row : IsStr(row[1]) /\ IsUtlaCode(row[1])))

RECURSIVE AddAreas(_, _, _)
\* add, in order, every area whose area_code is not in the table yet
AddAreas(areas, new, i) ==
    IF i > Len(new) THEN areas
    ELSE AddAreas(IF \E x \in areas : x.area_code = new[i].area_code THEN areas
                  ELSE areas \cup {new[i]},
                  new, i + 1)

\* load_geographic_areas(session)
load_geographic_areas(d, sheet) ==
    LET Fixed(utlas) ==
            {a \in CountryAreas \cup RegionAreas \cup (IF utlas = <<>> THEN SyntheticUtlas ELSE {}) :
                \A x \in d.areas : x.area_code # a.area_code}
        Added(utlas) == [d EXCEPT !.areas = AddAreas(@ \cup Fixed(utlas), utlas, 1)]
    IN  Added(UtlasOfSheet(sheet))

\* load_vaccines(session)
load_vaccines(d) ==
    [d EXCEPT !.vaccines = @ \cup {CANONICAL_VACCINES[i].vaccine_code : i \in 1..Len(CANONICAL_VACCINES)}]

\* load_age_cohorts(session): the cohorts by age_months
load_age_cohorts(d) == [d EXCEPT !.cohorts = @ \cup {12, 24, 60, 3}]

FirstYearStart == 2009
LastYearStart == 2025

\* f'{start_year}-{end_year}'
YearLabel(start_year) == IntToStr(start_year) \o "-" \o IntToStr(start_year + 1)

\* load_financial_years(session): the years by year_label
load_financial_years(d) ==
    [d EXCEPT !.years = @ \cup {YearLabel(y) : y \in FirstYearStart..LastYearStart}]

(***************************************************************************)
(* Fact tables: a table is the sequence of its rows in insertion order     *)
(***************************************************************************)
\* session.query(Table).filter_by(**key).first(): the index of the row, 0 for None
FindRow(table, key) ==
    LET hits == {i \in 1..Len(table) : \A f \in DOMAIN key : table[i][f] = key[f]}
    IN  IF hits = {} THEN 0 ELSE CHOOSE i \in hits : \A j \in hits : i <= j

\* an update branch that blanks the measured fields instead of assigning them
UpdateRowBlanking(existing, measured) ==
    [f \in DOMAIN existing |-> IF f \in DOMAIN measured THEN None ELSE existing[f]]

\* the update branch: existing.<field> = <value> for the measured fields the loader sets
UpdateRow(existing, measured) ==
    [f \in DOMAIN existing |-> IF f \in DOMAIN measured THEN measured[f] ELSE existing[f]]

\* the get-or-create of the loaders without the lookup: always session.add
InsertAlways(table, key, measured, unset) ==
    Append(table, key @@ measured @@ unset)

\* the get-or-create step of every loader: update the measured fields of the
\* existing row, or add a row whose other measured fields stay NULL
Upsert(table, key, measured, unset) ==
    LET existing == FindRow(table, key)
    IN  IF existing # 0
        THEN [table EXCEPT ![existing] = UpdateRow(@, measured)]
        ELSE Append(table, key @@ measured @@ unset)

\* csv_path.stem
Stem(name) ==
    IF Len(name) > 4 /\ SubSeq(name, Len(name) - 3, Len(name)) = ".csv"
    THEN SubSeq(name, 1, Len(name) - 4) ELSE name

\* the cohort a loader reads off the file name; 0 stands for the ValueError
CohortOfName(filename) ==
    IF Contains(filename, "12m") THEN 12
    ELSE IF Contains(filename, "24m") THEN 24
    ELSE IF Contains(filename, "5y") THEN 60
    ELSE 0

\* what a loader call returns to the model: the store, how the call ended and
\* the headers it passed to the matcher
Ended(d, outcome, matched) == [db |-> d, outcome |-> outcome, matched |-> matched]

\* the columns, from 0-based index start on, whose extract_vaccine_name is not empty
NamedColumns(columns, start) ==
    SelectSeq([i \in 1..(IF Len(columns) > start THEN Len(columns) - start ELSE 0) |-> i + start],
              LAMBDA c : extract_vaccine_name(columns[c]) # "")

country_map(area_name) ==
    CASE area_name = "United Kingdom" -> "K02000001"
      [] area_name = "England" -> "E92000001"
      [] area_name = "Scotland" -> "S92000003"
      [] area_name = "Wales" -> "W92000004"
      [] area_name = "Northern Ireland" -> "N92000002"
      [] OTHER -> ""

\* the first cleaned value of the cells at the given positions that is truthy
\* and above the floor; None when there is none
RECURSIVE FirstPopulation(_, _, _, _)
FirstPopulation(row, positions, i, floor) ==
    IF i > Len(positions) THEN None
    ELSE LET Taken(val) ==
                 IF Truthy(val) /\ GreaterThan(val, floor) THEN val
                 ELSE FirstPopulation(row, positions, i + 1, floor)
         IN  Taken(IF positions[i] <= Len(row)
                   THEN clean_numeric_value(row[positions[i]], NoRounding) ELSE None)

\* does the area exist: session.query(GeographicArea).filter_by(area_code=...).first()
AreaOfCode(d, area_code) == {a \in d.areas : a.area_code = area_code}

CurrentYear == "2024-2025"

RECURSIVE NationalColumns(_, _, _, _, _, _, _, _)
\* the vaccine loop of load_national_coverage_from_csv for one row
NationalColumns(d, c, df, row, vcols, k, table, ctx) ==
    IF k > Len(vcols) THEN table
    ELSE LET Stored(vaccine_code, coverage_pct) ==
                 IF vaccine_code = Unmatched \/ vaccine_code \notin d.vaccines
                 THEN NationalColumns(d, c, df, row, vcols, k + 1, table, ctx)
                 ELSE NationalColumns(d, c, df, row, vcols, k + 1,
                          Upsert(table,
                                 [year |-> CurrentYear, area_code |-> ctx.area_code,
                                  cohort |-> ctx.cohort, vaccine |-> vaccine_code],
                                 [eligible_population |-> ctx.eligible_pop,
                                  coverage_percentage |-> coverage_pct],
                                 [vaccinated_count |-> None]),
                          ctx)
         IN  Stored(Match(c, df.columns[vcols[k]]), clean_numeric_value(row[vcols[k]], 2))

\* is the row one the national loader processes: a country of the map that is in the store
NationalRowKept(d, row) ==
    /\ IsStr(row[1])
    /\ country_map(row[1]) # ""
    /\ AreaOfCode(d, country_map(row[1])) # {}

RECURSIVE NationalRows(_, _, _, _, _, _, _)
\* the row loop of load_national_coverage_from_csv
NationalRows(d, c, df, vcols, cohort, i, table) ==
    IF i > Len(df.rows) THEN table
    ELSE LET row == df.rows[i]
         IN  IF ~NationalRowKept(d, row) THEN NationalRows(d, c, df, vcols, cohort, i + 1, table)
             ELSE NationalRows(d, c, df, vcols, cohort, i + 1,
                      NationalColumns(d, c, df, row, vcols, 1, table,
                          [area_code |-> country_map(row[1]), cohort |-> cohort,
                           eligible_pop |-> FirstPopulation(row, <<3, 4, 5>>, 1, 1000)]))

\* load_national_coverage_from_csv(csv_path, session)
load_national_coverage_from_csv(d, c, file) ==
    LET Load(df, cohort_months, vcols, table) ==
            IF df.rows = <<>> THEN Ended(d, "returned", {})
            ELSE IF cohort_months = 0 THEN Ended(d, "ValueError", {})
            ELSE IF cohort_months \notin d.cohorts THEN Ended(d, "ValueError", {})
            ELSE IF CurrentYear \notin d.years THEN Ended(d, "ValueError", {})
            ELSE Ended([d EXCEPT !.national_coverage = table],
                       "committed",
                       IF \E i \in 1..Len(df.rows) : NationalRowKept(d, df.rows[i])
                       THEN {df.columns[vcols[k]] : k \in 1..Len(vcols)} ELSE {})
        Frame(df, cohort_months, vcols) ==
            Load(df, cohort_months, vcols, NationalRows(d, c, df, vcols, cohort_months, 1, d.national_coverage))
    IN  Frame(Cleaned(file), CohortOfName(Stem(file.name)), NamedColumns(Cleaned(file).columns, 3))

\* the 1-based position of a column name in a frame's columns, 0 when absent
ColumnOf(columns, col_name) ==
    LET hits == {c \in 1..Len(columns) : columns[c] = col_name}
    IN  IF hits = {} THEN 0 ELSE CHOOSE c \in hits : \A x \in hits : c <= x

\* the row test without the UTLA prefix and area_type conditions
LocalRowKeptAnyArea(d, row_pct) ==
    /\ IsStr(row_pct[1])
    /\ AreaOfCode(d, row_pct[1]) # {}

\* is the paired row one the local-authority loader processes
LocalRowKept(d, row_pct) ==
    /\ IsStr(row_pct[1])
    /\ IsUtlaCode(row_pct[1])
    /\ \E a \in AreaOfCode(d, row_pct[1]) : a.area_type = "utla"

RECURSIVE LocalColumns(_, _, _, _, _, _, _, _)
\* the vaccine loop of load_local_authority_coverage_from_paired_csvs for one row pair
LocalColumns(d, c, frames, rows, vcols, k, table, ctx) ==
    IF k > Len(vcols) THEN table
    ELSE LET Valid(raw_pct) == IF raw_pct # None /\ InPercentRange(raw_pct) THEN raw_pct ELSE None
             Stored(vaccine_code, coverage_pct, vaccinated_count) ==
                 IF vaccine_code = Unmatched \/ vaccine_code \notin d.vaccines
                    \/ (coverage_pct = None /\ vaccinated_count = None)
                 THEN LocalColumns(d, c, frames, rows, vcols, k + 1, table, ctx)
                 ELSE LocalColumns(d, c, frames, rows, vcols, k + 1,
                          Upsert(table,
                                 [year |-> CurrentYear, area_code |-> rows.pct[1],
                                  cohort |-> ctx.cohort, vaccine |-> vaccine_code],
                                 [eligible_population |-> ctx.eligible_pop,
                                  vaccinated_count |-> vaccinated_count,
                                  coverage_percentage |-> coverage_pct],
                                 <<>>),
                          ctx)
             Counted(cnt_col, cnt_value) == IF cnt_col # 0 THEN cnt_value ELSE None
         IN  Stored(Match(c, frames.pct.columns[vcols[k]]),
                    Valid(clean_numeric_value(rows.pct[vcols[k]], 2)),
                    Counted(ColumnOf(frames.cnt.columns, frames.pct.columns[vcols[k]]),
                            clean_numeric_value(
                                rows.cnt[ColumnOf(frames.cnt.columns, frames.pct.columns[vcols[k]])],
                                NoRounding)))

RECURSIVE LocalRows(_, _, _, _, _, _, _)
\* the positional row loop: idx in range(min(len(df_pct), len(df_cnt)))
LocalRows(d, c, frames, vcols, cohort, idx, table) ==
    IF idx > Len(frames.pct.rows) \/ idx > Len(frames.cnt.rows) THEN table
    ELSE LET row_pct == frames.pct.rows[idx]
         IN  IF ~LocalRowKept(d, row_pct) THEN LocalRows(d, c, frames, vcols, cohort, idx + 1, table)
             ELSE LocalRows(d, c, frames, vcols, cohort, idx + 1,
                      LocalColumns(d, c, frames, [pct |-> row_pct, cnt |-> frames.cnt.rows[idx]],
                          vcols, 1, table,
                          [cohort |-> cohort,
                           eligible_pop |-> FirstPopulation(row_pct, <<5, 6>>, 1, 100)]))

\* load_local_authority_coverage_from_paired_csvs(percentages_csv, counts_csv, session)
load_local_authority_coverage_from_paired_csvs(d, c, percentages_csv, counts_csv) ==
    LET Load(frames, cohort_months, vcols, table) ==
            IF frames.pct.rows = <<>> \/ frames.cnt.rows = <<>> THEN Ended(d, "returned", {})
            ELSE IF cohort_months = 0 THEN Ended(d, "ValueError", {})
            ELSE IF cohort_months \notin d.cohorts THEN Ended(d, "ValueError", {})
            ELSE IF CurrentYear \notin d.years THEN Ended(d, "ValueError", {})
            ELSE Ended([d EXCEPT !.local_authority_coverage = table],
                       "committed",
                       IF \E i \in 1..Len(frames.pct.rows) :
                              i <= Len(frames.cnt.rows) /\ LocalRowKept(d, frames.pct.rows[i])
                       THEN {frames.pct.columns[vcols[k]] : k \in 1..Len(vcols)} ELSE {})
        Frames(frames, cohort_months, vcols) ==
            Load(frames, cohort_months, vcols,
                 LocalRows(d, c, frames, vcols, cohort_months, 1, d.local_authority_coverage))
    IN  Frames([pct |-> Cleaned(percentages_csv), cnt |-> Cleaned(counts_csv)],
               CohortOfName(Stem(percentages_csv.name)),
               NamedColumns(Cleaned(percentages_csv).columns, 4))

\* determine_cohort_from_filename(csv_path); 0 stands for the ValueError
determine_cohort_from_filename(name) ==
    LET filename == Lower(Stem(name))
    IN  IF Contains(filename, "12m") THEN 12
        ELSE IF Contains(filename, "24m") THEN 24
        ELSE IF Contains(filename, "5y") THEN 60
        ELSE IF Contains(filename, "3m") THEN 3
        ELSE 0

\* is the first cell a year label for the time-series loaders
IsYearLabel(year_label) == Contains(year_label, " to ") \/ Contains(year_label, "-")

\* "2009 to 2010" -> "2009-2010", when the split on ' to ' gives two parts
NormalizeYearLabel(year_label) ==
    LET p == Find(year_label, " to ")
        left == SubSeq(year_label, 1, p - 1)
        right == SubSeq(year_label, p + 4, Len(year_label))
    IN  IF p # 0 /\ ~Contains(right, " to ") THEN Strip(left) \o "-" \o Strip(right)
        ELSE year_label

RECURSIVE EnglandColumns(_, _, _, _, _, _, _)
\* the vaccine loop of load_england_time_series_from_csv for one year row
EnglandColumns(d, row, vcols, k, table, year_label, cohort) ==
    IF k > Len(vcols) THEN table
    ELSE LET Stored(coverage_pct) ==
                 IF vcols[k].vaccine_code \notin d.vaccines
                    \/ (coverage_pct # None /\ ~InPercentRange(coverage_pct))
                 THEN EnglandColumns(d, row, vcols, k + 1, table, year_label, cohort)
                 ELSE EnglandColumns(d, row, vcols, k + 1,
                          Upsert(table,
                                 [year |-> year_label, cohort |-> cohort,
                                  vaccine |-> vcols[k].vaccine_code],
                                 [coverage_percentage |-> coverage_pct],
                                 <<>>),
                          year_label, cohort)
         IN  Stored(clean_numeric_value(row[vcols[k].col], 2))

RECURSIVE EnglandRows(_, _, _, _, _, _)
\* the row loop of load_england_time_series_from_csv
EnglandRows(d, df, vcols, cohort, i, table) ==
    IF i > Len(df.rows) THEN table
    ELSE LET Year(year_label, loaded) ==
                 IF ~IsYearLabel(Str(df.rows[i][1])) \/ year_label \notin d.years
                 THEN EnglandRows(d, df, vcols, cohort, i + 1, table)
                 ELSE EnglandRows(d, df, vcols, cohort, i + 1, loaded)
         IN  Year(NormalizeYearLabel(Str(df.rows[i][1])),
                  EnglandColumns(d, df.rows[i], vcols, 1, table,
                                 NormalizeYearLabel(Str(df.rows[i][1])), cohort))

\* load_england_time_series_from_csv(csv_path, session)
load_england_time_series_from_csv(d, c, file) ==
    LET Load(df, cohort_months, table) ==
            IF df.rows = <<>> THEN Ended(d, "returned", {})
            ELSE IF cohort_months = 0 THEN Ended(d, "ValueError", {})
            ELSE IF cohort_months \notin d.cohorts THEN Ended(d, "ValueError", {})
            ELSE Ended([d EXCEPT !.england_time_series = table],
                       "committed",
                       {df.columns[i] : i \in 2..Len(df.columns)})
        Matched(df) ==
            SelectSeq([i \in 1..(Len(df.columns) - 1) |->
                          [col |-> i + 1, vaccine_code |-> Match(c, df.columns[i + 1])]],
                      LAMBDA v : v.vaccine_code # Unmatched)
        Frame(df, cohort_months, vcols) ==
            Load(df, cohort_months, EnglandRows(d, df, vcols, cohort_months, 1, d.england_time_series))
    IN  Frame(Cleaned(file), determine_cohort_from_filename(file.name), Matched(Cleaned(file)))

\* the area lookup without the fallback to the country England
AreaOfRegionOnly(d, region_name) ==
    {a \in d.areas : a.area_name = region_name /\ a.area_type = "region"}

\* the area a region column resolves to: the region of that name, else the
\* country England for 'England'; the empty set when there is none
AreaOfRegion(d, region_name) ==
    LET regions == {a \in d.areas : a.area_name = region_name /\ a.area_type = "region"}
    IN  IF regions # {} THEN regions
        ELSE IF region_name = "England"
        THEN {a \in d.areas : a.area_name = "England" /\ a.area_type = "country"}
        ELSE {}

RECURSIVE RegionalColumns(_, _, _, _, _, _)
\* the region loop of load_regional_time_series_from_csv for one year row
RegionalColumns(d, row, region_columns, k, table, ctx) ==
    IF k > Len(region_columns) THEN table
    ELSE LET Stored(area, coverage_pct) ==
                 IF area = {} \/ (coverage_pct # None /\ ~InPercentRange(coverage_pct))
                 THEN RegionalColumns(d, row, region_columns, k + 1, table, ctx)
                 ELSE RegionalColumns(d, row, region_columns, k + 1,
                          Upsert(table,
                                 [year |-> ctx.year_label,
                                  area_code |-> (CHOOSE a \in area : TRUE).area_code,
                                  cohort |-> ctx.cohort, vaccine |-> ctx.vaccine],
                                 [coverage_percentage |-> coverage_pct],
                                 <<>>),
                          ctx)
         IN  Stored(AreaOfRegion(d, region_columns[k].name),
                    clean_numeric_value(row[region_columns[k].col_idx + 1], 2))

RECURSIVE RegionalRows(_, _, _, _, _)
\* the row loop of load_regional_time_series_from_csv
RegionalRows(d, loaded, ctx, i, table) ==
    IF i > Len(loaded.df.rows) THEN table
    ELSE LET Year(year_label, stored) ==
                 IF ~IsYearLabel(Str(loaded.df.rows[i][1])) \/ year_label \notin d.years
                 THEN RegionalRows(d, loaded, ctx, i + 1, table)
                 ELSE RegionalRows(d, loaded, ctx, i + 1, stored)
         IN  Year(NormalizeYearLabel(Str(loaded.df.rows[i][1])),
                  RegionalColumns(d, loaded.df.rows[i], loaded.vaccine_columns, 1, table,
                      [year_label |-> NormalizeYearLabel(Str(loaded.df.rows[i][1])),
                       cohort |-> ctx.cohort, vaccine |-> ctx.vaccine]))

\* load_regional_time_series_from_csv(csv_path, session)
load_regional_time_series_from_csv(d, file) ==
    LET VaccineOf(filename) ==
            IF Contains(filename, "DTaP") \/ Contains(filename, "T14") THEN "DTaP_IPV_Hib_HepB"
            ELSE IF Contains(filename, "MMR") \/ Contains(filename, "T15") THEN "MMR1"
            ELSE ""
        CohortOf(filename) ==
            IF Contains(filename, "24m") THEN 24
            ELSE IF Contains(filename, "12m") THEN 12
            ELSE IF Contains(filename, "5y") THEN 60
            ELSE 0
        Load(loaded, vaccine_code, cohort_months, table) ==
            IF loaded.df.rows = <<>> THEN Ended(d, "returned", {})
            ELSE IF vaccine_code = "" THEN Ended(d, "ValueError", {})
            ELSE IF vaccine_code \notin d.vaccines THEN Ended(d, "returned", {})
            ELSE IF cohort_months = 0 THEN Ended(d, "ValueError", {})
            ELSE IF cohort_months \notin d.cohorts THEN Ended(d, "ValueError", {})
            ELSE Ended([d EXCEPT !.regional_time_series = table], "committed", {})
        Frame(loaded, vaccine_code, cohort_months) ==
            Load(loaded, vaccine_code, cohort_months,
                 RegionalRows(d, loaded, [cohort |-> cohort_months, vaccine |-> vaccine_code], 1,
                              d.regional_time_series))
    IN  Frame(CleanedTyped(file), VaccineOf(Stem(file.name)), CohortOf(Stem(file.name)))

\* the cohort columns of a special-programme sheet: 'Coverage at' ... '(%)' with
\* '12 months' or '24 months', each with the eligible / vaccinated column found
\* in the two columns before it; positions are 0-based, -1 stands for None
SpecialColumns(columns) ==
    LET Near(col_idx, word) ==
            LET hits == {i \in 0..(col_idx - 1) :
                            /\ i > (IF col_idx - 3 > 0 THEN col_idx - 3 ELSE 0)
                            /\ Contains(Lower(columns[i + 1]), word)}
            IN  IF hits = {} THEN -1 ELSE CHOOSE i \in hits : \A j \in hits : i <= j
        candidates == [c \in 1..Len(columns) |->
            [cohort_months |-> IF Contains(columns[c], "12 months") THEN 12
                               ELSE IF Contains(columns[c], "24 months") THEN 24 ELSE 0,
             coverage_col |-> c - 1,
             eligible_col |-> Near(c - 1, "eligible"),
             vaccinated_col |-> Near(c - 1, "vaccinated")]]
    IN  SelectSeq(candidates,
                  LAMBDA v : /\ Contains(columns[v.coverage_col + 1], "Coverage at")
                             /\ Contains(columns[v.coverage_col + 1], "(%)")
                             /\ v.cohort_months # 0)

RECURSIVE SpecialCohorts(_, _, _, _, _, _)
\* the cohort loop of load_special_programs_from_csv for one row
SpecialCohorts(d, row, vaccine_columns, k, table, program_type) ==
    IF k > Len(vaccine_columns) THEN table
    ELSE LET Stored(vac_col, eligible_pop, vaccinated, coverage_pct) ==
                 IF vac_col.cohort_months \notin d.cohorts
                    \/ (coverage_pct # None /\ ~InPercentRange(coverage_pct))
                 THEN SpecialCohorts(d, row, vaccine_columns, k + 1, table, program_type)
                 ELSE SpecialCohorts(d, row, vaccine_columns, k + 1,
                          Upsert(table,
                                 [year |-> CurrentYear, area_code |-> Strip(Str(row[1])),
                                  cohort |-> vac_col.cohort_months, program_type |-> program_type],
                                 [eligible_population |-> eligible_pop,
                                  vaccinated_count |-> vaccinated,
                                  coverage_percentage |-> coverage_pct],
                                 [coverage_range |-> None]),
                          program_type)
         IN  Stored(vaccine_columns[k],
                    IF vaccine_columns[k].eligible_col = -1 THEN None
                    ELSE clean_numeric_value(row[vaccine_columns[k].eligible_col + 1], NoRounding),
                    IF vaccine_columns[k].vaccinated_col = -1 THEN None
                    ELSE clean_numeric_value(row[vaccine_columns[k].vaccinated_col + 1], NoRounding),
                    clean_numeric_value(row[vaccine_columns[k].coverage_col + 1], 2))

RECURSIVE SpecialRows(_, _, _, _, _, _)
\* the row loop of load_special_programs_from_csv over the filtered frame
SpecialRows(d, rows, vaccine_columns, program_type, i, table) ==
    IF i > Len(rows) THEN table
    ELSE IF AreaOfCode(d, Strip(Str(rows[i][1]))) = {}
         THEN SpecialRows(d, rows, vaccine_columns, program_type, i + 1, table)
         ELSE SpecialRows(d, rows, vaccine_columns, program_type, i + 1,
                  SpecialCohorts(d, rows[i], vaccine_columns, 1, table, program_type))

\* the programme a special-programme sheet's name stands for; "" for the ValueError
ProgramOfName(filename) ==
    IF Contains(filename, "HepB") \/ Contains(filename, "T7") THEN "HepB"
    ELSE IF Contains(filename, "BCG") \/ Contains(filename, "T8") THEN "BCG"
    ELSE ""

HeaderRowOfProgram(program_type) == IF program_type = "HepB" THEN HepBHeaderRow ELSE BCGHeaderRow

\* pd.read_csv(csv_path, header=header_row), the area-code filter and the cohort columns
read_special_programs(file) ==
    LET Read(df) ==
            [df |-> df,
             df_filtered |-> SelectSeq(df.rows,
                                 LAMBDA row : row[1] # NaN /\ MatchesAreaCode(Strip(Str(row[1])))),
             vaccine_columns |-> SpecialColumns(df.columns)]
    IN  Read(ReadCsv(file.grid, HeaderRowOfProgram(ProgramOfName(Stem(file.name)))))

\* the special-programme sheets read once, as <<sheet, frames>>
SpecialSheets == {SpecialSheet(cell) : cell \in CoverageCells}

ReadSheets == {<<file, read_special_programs(file)>> : file \in SpecialSheets}

ReadSpecial(file) ==
    IF file \in SpecialSheets THEN (CHOOSE p \in ReadSheets : p[1] = file)[2]
    ELSE read_special_programs(file)

\* load_special_programs_from_csv(csv_path, session)
load_special_programs_from_csv(d, file) ==
    LET Load(program_type, sheet, table) ==
            IF program_type = "" THEN Ended(d, "ValueError", {})
            ELSE IF Len(file.grid) <= HeaderRowOfProgram(program_type) THEN Ended(d, "ValueError", {})
            ELSE IF sheet.df.rows = <<>> THEN Ended(d, "returned", {})
            ELSE IF program_type \notin d.vaccines THEN Ended(d, "returned", {})
            ELSE IF CurrentYear \notin d.years THEN Ended(d, "ValueError", {})
            ELSE Ended([d EXCEPT !.special_programs = table], "committed", {})
        Frame(program_type, sheet) ==
            Load(program_type, sheet,
                 SpecialRows(d, sheet.df_filtered, sheet.vaccine_columns, program_type, 1,
                             d.special_programs))
    IN  Frame(ProgramOfName(Stem(file.name)), ReadSpecial(file))

(***************************************************************************)
(* The multi-file run                                                      *)
(***************************************************************************)
\* what a load_all_* call hands on: the store, the matcher cache, how it ended
Group(d, c, outcome) == [db |-> d, cache |-> c, outcome |-> outcome]

RECURSIVE load_all_national_coverage(_, _, _, _)
\* load_all_national_coverage(csv_dir, session) over the sheets that exist
load_all_national_coverage(d, c, sheets, i) ==
    IF i > Len(sheets) THEN Group(d, c, "returned")
    ELSE LET Then(r) ==
                 IF r.outcome = "ValueError" THEN Group(d, c, "ValueError")
                 ELSE load_all_national_coverage(r.db, CacheAfter(c, r.matched), sheets, i + 1)
         IN  Then(load_national_coverage_from_csv(d, c, sheets[i]))

RECURSIVE load_all_local_authority_coverage(_, _, _, _)
\* load_all_local_authority_coverage(csv_dir, session) over the pairs that exist
load_all_local_authority_coverage(d, c, sheet_pairs, i) ==
    IF i > Len(sheet_pairs) THEN Group(d, c, "returned")
    ELSE LET Then(r) ==
                 IF r.outcome = "ValueError" THEN Group(d, c, "ValueError")
                 ELSE load_all_local_authority_coverage(r.db, CacheAfter(c, r.matched), sheet_pairs, i + 1)
         IN  Then(load_local_authority_coverage_from_paired_csvs(d, c, sheet_pairs[i][1], sheet_pairs[i][2]))

RECURSIVE load_all_england_time_series(_, _, _, _)
\* load_all_england_time_series(csv_dir, session) over the sheets that exist
load_all_england_time_series(d, c, sheets, i) ==
    IF i > Len(sheets) THEN Group(d, c, "returned")
    ELSE LET Then(r) ==
                 IF r.outcome = "ValueError" THEN Group(d, c, "ValueError")
                 ELSE load_all_england_time_series(r.db, CacheAfter(c, r.matched), sheets, i + 1)
         IN  Then(load_england_time_series_from_csv(d, c, sheets[i]))

RECURSIVE load_all_regional_time_series(_, _, _, _)
\* load_all_regional_time_series(csv_dir, session) over the sheets that exist
load_all_regional_time_series(d, c, sheets, i) ==
    IF i > Len(sheets) THEN Group(d, c, "returned")
    ELSE LET Then(r) ==
                 IF r.outcome = "ValueError" THEN Group(d, c, "ValueError")
                 ELSE load_all_regional_time_series(r.db, c, sheets, i + 1)
         IN  Then(load_regional_time_series_from_csv(d, sheets[i]))

RECURSIVE load_all_special_programs(_, _, _, _)
\* load_all_special_programs(csv_dir, session) over the sheets that exist
load_all_special_programs(d, c, sheets, i) ==
    IF i > Len(sheets) THEN Group(d, c, "returned")
    ELSE LET Then(r) ==
                 IF r.outcome = "ValueError" THEN Group(d, c, "ValueError")
                 ELSE load_all_special_programs(r.db, c, sheets, i + 1)
         IN  Then(load_special_programs_from_csv(d, sheets[i]))

RECURSIVE FactGroups(_, _, _)
\* the five try blocks of reload_all_data from the k-th on: each sets its count
\* from the table after its loader returned, or appends its warning and leaves
\* the count at its initial 0
FactGroups(run, dir, k) ==
    IF k > 5 THEN run
    ELSE LET Tried(group, key, table, text) ==
                 IF group.outcome = "ValueError"
                 THEN FactGroups([db |-> group.db, cache |-> group.cache,
                                  summary |-> [run.summary EXCEPT !.warnings = @ \o <<text>>]],
                                 dir, k + 1)
                 ELSE FactGroups([db |-> group.db, cache |-> group.cache,
                                  summary |-> [run.summary EXCEPT ![key] = Len(group.db[table])]],
                                 dir, k + 1)
         IN  CASE k = 1 -> Tried(load_all_national_coverage(run.db, run.cache, dir.national, 1),
                                 "national_coverage", "national_coverage",
                                 "National coverage not loaded")
               [] k = 2 -> Tried(load_all_local_authority_coverage(run.db, run.cache,
                                                                   dir.local_authority, 1),
                                 "la_coverage", "local_authority_coverage",
                                 "Local authority data not loaded")
               [] k = 3 -> Tried(load_all_england_time_series(run.db, run.cache, dir.england, 1),
                                 "england_time_series", "england_time_series",
                                 "England time series not loaded")
               [] k = 4 -> Tried(load_all_regional_time_series(run.db, run.cache, dir.regional, 1),
                                 "regional_time_series", "regional_time_series",
                                 "Regional time series not loaded")
               [] k = 5 -> Tried(load_all_special_programs(run.db, run.cache, dir.special, 1),
                                 "special_programs", "special_programs",
                                 "Special programs not loaded")

\* reload_all_data(session, csv_path): the store, the cache and the summary returned
reload_all_data(d, c, utla_sheet, dir) ==
    LET Counted(ref) ==
            [db |-> ref, cache |-> c,
             summary |-> [geographic_areas |-> Cardinality(ref.areas),
                          vaccines |-> Cardinality(ref.vaccines),
                          age_cohorts |-> Cardinality(ref.cohorts),
                          financial_years |-> Cardinality(ref.years),
                          national_coverage |-> 0, la_coverage |-> 0, england_time_series |-> 0,
                          regional_time_series |-> 0, special_programs |-> 0,
                          warnings |-> <<>>]]
        FactData(run) ==
            IF dir.exists THEN FactGroups(run, dir, 1)
            ELSE [run EXCEPT !.summary.warnings = <<"CSV directory not found">>]
    IN  FactData(Counted(load_financial_years(load_age_cohorts(load_vaccines(
                             load_geographic_areas(d, utla_sheet))))))

(***************************************************************************)
(* The loaders as a state machine                                          *)
(***************************************************************************)
Init == db = EmptyDb /\ call = NoCall /\ cache = <<>> /\ loads = 0

\* the reference-data loaders return nothing; the call recorded is forgotten
LoadGeographicAreas(sheet) ==
    /\ db' = load_geographic_areas(db, sheet)
    /\ call' = NoCall
    /\ UNCHANGED <<cache, loads>>

LoadVaccines ==
    /\ db' = load_vaccines(db)
    /\ call' = NoCall
    /\ UNCHANGED <<cache, loads>>

LoadAgeCohorts ==
    /\ db' = load_age_cohorts(db)
    /\ call' = NoCall
    /\ UNCHANGED <<cache, loads>>

LoadFinancialYears ==
    /\ db' = load_financial_years(db)
    /\ call' = NoCall
    /\ UNCHANGED <<cache, loads>>

\* is this call the one just made, made again
Again(op, file) == call.op = op /\ call.file = file

\* one call of a fact loader: the store and the cache it leaves, the call recorded
Loaded(op, file, r) ==
    /\ db' = r.db
    /\ cache' = CacheAfter(cache, r.matched)
    /\ call' = [op |-> op, file |-> file, outcome |-> r.outcome, again |-> Again(op, file)]
    /\ loads' = loads + 1

LoadNational(file) ==
    Loaded("load_national_coverage_from_csv", file, load_national_coverage_from_csv(db, cache, file))

LoadLocalAuthority(pair) ==
    Loaded("load_local_authority_coverage_from_paired_csvs", pair,
           load_local_authority_coverage_from_paired_csvs(db, cache, pair[1], pair[2]))

LoadEnglandTimeSeries(file) ==
    Loaded("load_england_time_series_from_csv", file, load_england_time_series_from_csv(db, cache, file))

LoadRegionalTimeSeries(file) ==
    Loaded("load_regional_time_series_from_csv", file, load_regional_time_series_from_csv(db, file))

LoadSpecialPrograms(file) ==
    Loaded("load_special_programs_from_csv", file, load_special_programs_from_csv(db, file))

ReloadAllData(utla_sheet, dir) ==
    LET Reloaded(file, r) ==
            /\ db' = r.db
            /\ cache' = r.cache
            /\ call' = [op |-> "reload_all_data", file |-> file, summary |-> r.summary,
                        again |-> Again("reload_all_data", file)]
            /\ loads' = loads + 1
    IN  Reloaded([csv_path |-> dir, utla_sheet |-> utla_sheet], reload_all_data(db, cache, utla_sheet, dir))

Next ==
    \/ \E sheet \in UtlaSheets : LoadGeographicAreas(sheet)
    \/ LoadVaccines
    \/ LoadAgeCohorts
    \/ LoadFinancialYears
    \/ /\ loads < MaxLoads
       /\ \/ \E cell \in CoverageCells : LoadNational(NationalSheet(cell))
          \/ \E pair \in LocalPairs : LoadLocalAuthority(pair)
          \/ \E cell \in CoverageCells : LoadEnglandTimeSeries(EnglandSheet(cell))
          \/ \E cell \in CoverageCells : LoadRegionalTimeSeries(RegionalSheet(cell))
          \/ \E cell \in CoverageCells : LoadSpecialPrograms(SpecialSheet(cell))
          \/ \E sheet \in UtlaSheets, dir \in Dirs : ReloadAllData(sheet, dir)

Spec == Init /\ [][Next]_vars

(***************************************************************************)
(* Properties of the loaders                                               *)
(***************************************************************************)
FactTables ==
    {"national_coverage", "local_authority_coverage", "england_time_series",
     "regional_time_series", "special_programs"}

\* the natural key of each fact table: the columns of its UniqueConstraint
KeyFields(table_name) ==
    CASE table_name = "england_time_series" -> {"year", "cohort", "vaccine"}
      [] table_name = "special_programs" -> {"year", "area_code", "cohort", "program_type"}
      [] OTHER -> {"year", "area_code", "cohort", "vaccine"}

KeyOf(row, table_name) == [f \in KeyFields(table_name) |-> row[f]]

Facts(d) == [t \in FactTables |-> d[t]]

FactLoaders ==
    {"load_national_coverage_from_csv", "load_local_authority_coverage_from_paired_csvs",
     "load_england_time_series_from_csv", "load_regional_time_series_from_csv",
     "load_special_programs_from_csv"}

\* no two rows of a fact table have the same natural key
OneRowPerKey ==
    \A t \in FactTables :
        \A i, j \in 1..Len(db[t]) : KeyOf(db[t][i], t) = KeyOf(db[t][j], t) => i = j

\* a step keeps every row where it was, under its key, and adds rows only for keys
\* that had no row
WritesInPlace ==
    \A t \in FactTables :
        /\ Len(db'[t]) >= Len(db[t])
        /\ \A i \in 1..Len(db[t]) : KeyOf(db'[t][i], t) = KeyOf(db[t][i], t)
        /\ \A i \in (Len(db[t]) + 1)..Len(db'[t]) :
               \A j \in 1..Len(db[t]) : KeyOf(db'[t][i], t) # KeyOf(db[t][j], t)

\* C1: after any sequence of fact loads every fact table holds at most one row per
\* natural key, and a write to a key that has a row updates that row in place and
\* inserts nothing
C1_OneRowPerNaturalKey == []OneRowPerKey /\ [][WritesInPlace]_vars

\* a second load of a sheet whose first load wrote rows: the rows are still one per key
C1_Witness ==
    /\ call.op = "load_national_coverage_from_csv"
    /\ call.again
    /\ call.outcome = "committed"
    /\ Len(db.national_coverage) = 2

\* C2: loading the same unchanged file, or the same directory, a second time leaves
\* every fact table with the same rows and the same measured values
C2_SecondLoadIsNoOp ==
    [][(call'.op \in FactLoaders \cup {"reload_all_data"} /\ call'.again) => Facts(db') = Facts(db)]_vars

\* the same directory reloaded, with rows in every fact table
C2_Witness ==
    /\ call.op = "reload_all_data"
    /\ call.again
    /\ \A t \in FactTables : db[t] # <<>>

\* C3: every stored coverage_percentage is null or within [0, 100]
C3_CoverageInRange ==
    \A t \in FactTables :
        \A i \in 1..Len(db[t]) :
            db[t][i].coverage_percentage = None \/ InPercentRange(db[t][i].coverage_percentage)

\* the records of a sheet pair: one per data row of the 'a' sheet and vaccine column,
\* with the values the two sheets give for it, the 'b' row being the one of the same code
LocalRecords(pair) ==
    LET pct == Cleaned(pair[1])
        cnt == Cleaned(pair[2])
        shared == {c \in 5..Len(pct.columns) : ColumnOf(cnt.columns, pct.columns[c]) # 0}
        Partners(i) == {j \in 1..Len(cnt.rows) : cnt.rows[j][1] = pct.rows[i][1]}
    IN  UNION {{[area_code |-> pct.rows[i][1],
                 vaccine |-> Resolve(pct.columns[c]),
                 coverage_percentage |-> clean_numeric_value(pct.rows[i][c], 2),
                 vaccinated_count |->
                     clean_numeric_value(cnt.rows[j][ColumnOf(cnt.columns, pct.columns[c])], NoRounding)] :
                   j \in Partners(i), c \in shared} :
               i \in 1..Len(pct.rows)}

\* C4: after a later load of a sheet pair, the row of every key the pair has a record
\* for holds the pair's measurements; none written by an earlier run survives
C4_LaterSourceOverwrites ==
    (call.op = "load_local_authority_coverage_from_paired_csvs" /\ call.outcome = "committed") =>
        \A rec \in LocalRecords(call.file) :
            \A i \in 1..Len(db.local_authority_coverage) :
                LET row == db.local_authority_coverage[i]
                IN  (row.area_code = rec.area_code /\ row.vaccine = rec.vaccine) =>
                        /\ row.vaccinated_count = rec.vaccinated_count
                        /\ row.coverage_percentage =
                               IF rec.coverage_percentage # None /\ InPercentRange(rec.coverage_percentage)
                               THEN rec.coverage_percentage ELSE None

\* is the call one whose sheet cannot be read at all: no cohort, vaccine or programme
\* in its name, or no header row where the loader reads it
Unreadable(op, file) ==
    CASE op \in {"load_national_coverage_from_csv"} -> CohortOfName(Stem(file.name)) = 0
      [] op = "load_local_authority_coverage_from_paired_csvs" -> CohortOfName(Stem(file[1].name)) = 0
      [] op = "load_england_time_series_from_csv" -> determine_cohort_from_filename(file.name) = 0
      [] op = "load_regional_time_series_from_csv" ->
            \/ ~\E token \in {"DTaP", "T14", "MMR", "T15"} : Contains(Stem(file.name), token)
            \/ CohortOfName(Stem(file.name)) = 0
      [] op = "load_special_programs_from_csv" ->
            \/ ProgramOfName(Stem(file.name)) = ""
            \/ Len(file.grid) <= HeaderRowOfProgram(ProgramOfName(Stem(file.name)))

\* C5: a reference that is absent from the dimension tables never makes the load of
\* a readable file raise
C5_UnresolvedReferenceDoesNotRaise ==
    (call.op \in FactLoaders /\ ~Unreadable(call.op, call.file)) => call.outcome # "ValueError"

\* does a sheet of the directory hold a record whose area or year is not in the
\* dimension tables: a country row of a national sheet, a year row of an England sheet
SkipsRecord(d, dir) ==
    \/ \E k \in 1..Len(dir.national) :
           \E i \in 1..Len(Cleaned(dir.national[k]).rows) :
               LET row == Cleaned(dir.national[k]).rows[i]
               IN  IsStr(row[1]) /\ country_map(row[1]) # "" /\ AreaOfCode(d, country_map(row[1])) = {}
    \/ \E k \in 1..Len(dir.england) :
           \E i \in 1..Len(Cleaned(dir.england[k]).rows) :
               LET year_label == Str(Cleaned(dir.england[k]).rows[i][1])
               IN  IsYearLabel(year_label) /\ NormalizeYearLabel(year_label) \notin d.years

\* C6: a run that skipped a record for an unresolved reference returns a warning
C6_SkipsAreWarned ==
    (call.op = "reload_all_data" /\ call.file.csv_path.exists /\ SkipsRecord(db, call.file.csv_path)) =>
        call.summary.warnings # <<>>

(***************************************************************************)
(* Classifier: file names built from a dataset prefix, a table-ID token    *)
(* and a sheet suffix                                                      *)
(***************************************************************************)
DatasetPrefixes == {"", "cover-anual-data-tables-2024-to-2025_", "data_"}

TableIds ==
    {"T1_", "T2_", "T3_", "T4a_", "T4b_", "T5a_", "T5b_", "T6a_", "T6b_", "T7_", "T8_",
     "T9_", "T10_", "T11_", "T14_", "T15_", "T12_", "T13_", "T16_", "T0_", "unknown_file", "T"}

SheetSuffixes == {"UK12m.csv", "UTLA12m.csv", "RegDTaP24m.csv", ".csv"}

InitClassifier == db = EmptyDb /\ call = NoCall /\ cache = <<>> /\ loads = 0

Identify(pre, tid, rest) ==
    /\ call' = [op |-> "identify_csv_type", prefix |-> pre, tid |-> tid,
                file |-> pre \o tid \o rest,
                result |-> identify_csv_type(pre \o tid \o rest)]
    /\ UNCHANGED <<db, cache, loads>>

NextClassifier ==
    /\ call = NoCall
    /\ \E pre \in DatasetPrefixes, tid \in TableIds, rest \in SheetSuffixes : Identify(pre, tid, rest)

SpecClassifier == InitClassifier /\ [][NextClassifier]_vars

\* The variant the table-ID token stands for (spec section 4.1 and section 6)
VariantOfTableId(tid) ==
    IF tid \in {"T1_", "T2_", "T3_"} THEN NATIONAL
    ELSE IF tid \in {"T4a_", "T4b_", "T5a_", "T5b_", "T6a_", "T6b_"} THEN LOCAL_AUTHORITY
    ELSE IF tid \in {"T7_", "T8_"} THEN SPECIAL_PROGRAM
    ELSE IF tid \in {"T9_", "T10_", "T11_"} THEN TIME_SERIES
    ELSE IF tid \in {"T14_", "T15_"} THEN REGIONAL_TIME_SERIES
    ELSE UNKNOWN

\* C7: identify_csv_type maps every file name to the variant of its table-ID
\* token, also when a dataset prefix precedes the table ID.
C7_ClassifiedByTableId ==
    call.op = "identify_csv_type" => call.result = VariantOfTableId(call.tid)

(***************************************************************************)
(* Cleaner: the typed and the untyped cleaner applied to bounded grids     *)
(***************************************************************************)
MaxGridRows == 3

TitleRow == <<"Table: childhood vaccination statistics", NaN, NaN, NaN, NaN, NaN, NaN>>
CodeNoteRow == <<"ODS Code reference list", NaN, NaN, NaN, NaN, NaN, NaN>>
YearNoteRow == <<"Financial year 2024 to 2025", "Local authority figures", NaN, NaN, NaN, NaN, NaN>>
NationalHeaderRow ==
    <<"Geographic area", "Notes", "Number aged 12 months", "Coverage at 12 months MMR1 (%)",
      "Coverage at 12 months Rotavirus (%)", NaN, NaN>>
LocalHeaderRow ==
    <<"Code", "Local authority", "Region", "ODS", "Notes", "Number aged 12 months",
      "Coverage at 12 months MMR1 (%)">>
YearHeaderRow ==
    <<"Financial year", "Notes", "England", "Coverage of MMR1 (%)", "North East", NaN, NaN>>
PlainHeaderRow ==
    <<"Area", "Remarks", "Population", "Coverage at 12 months MMR1 (%)", "London", "Population",
      "Coverage at 12 months PCV1 (%)">>
CountryRow == <<"England", NaN, "668,160", "95.5", "[c]", NaN, "91.2">>
AreaRow == <<"E10000019", "Lambeth", "London", "X01", NaN, "3,210", "88.1">>
YearRow == <<"2009 to 2010", NaN, "94.1", "93.0", "92.5", NaN, NaN>>

RowCatalog ==
    {TitleRow, CodeNoteRow, YearNoteRow, NationalHeaderRow, LocalHeaderRow, YearHeaderRow,
     PlainHeaderRow, CountryRow, AreaRow, YearRow}

Grids == UNION {[1..n -> RowCatalog] : n \in 1..MaxGridRows}

CleanerNames ==
    {"T1_UK12m.csv", "T4a_UTLA12m.csv", "T7_UTLAHepB.csv", "T9_Eng12m.csv",
     "cover-anual-data-tables-2024-to-2025_T14_RegDTaP24m.csv",
     "cover-anual-data-tables-2024-to-2025_T1_UK12m.csv", "unknown_file.csv"}

\* the sheets the loaders hand to the untyped cleaner, with the sheet_type they pass
UntypedSheets ==
    {[name |-> "cover-anual-data-tables-2024-to-2025_T1_UK12m.csv", sheet_type |-> "national"],
     [name |-> "cover-anual-data-tables-2024-to-2025_T4a_UTLA12m.csv", sheet_type |-> "utla"],
     [name |-> "cover-anual-data-tables-2024-to-2025_T9_Eng12m.csv", sheet_type |-> "time_series"]}

InitCleaner == db = EmptyDb /\ call = NoCall /\ cache = <<>> /\ loads = 0

CleanTyped(name, grid) ==
    /\ call' = [op |-> "load_cleaned_csv_typed", file |-> [name |-> name, grid |-> grid],
                result |-> load_cleaned_csv_typed([name |-> name, grid |-> grid])]
    /\ UNCHANGED <<db, cache, loads>>

CleanUntyped(name, grid, sheet_type) ==
    /\ call' = [op |-> "load_cleaned_csv", file |-> [name |-> name, grid |-> grid],
                sheet_type |-> sheet_type,
                header_row |-> find_header_row(grid),
                result |-> load_cleaned_csv([name |-> name, grid |-> grid])]
    /\ UNCHANGED <<db, cache, loads>>

\* each cleaner is applied once to the chosen file
NextCleaner ==
    /\ call = NoCall
    /\ \/ \E name \in CleanerNames, grid \in Grids : CleanTyped(name, grid)
       \/ \E sheet \in UntypedSheets, grid \in Grids :
              CleanUntyped(sheet.name, grid, sheet.sheet_type)

SpecCleaner == InitCleaner /\ [][NextCleaner]_vars

\* C8: a file classified UNKNOWN is refused: no header row, no value columns
\* and no data rows are derived from it with default layout settings.
C8_UnknownRefused ==
    (call.op = "load_cleaned_csv_typed" /\ call.result.csv_type = UNKNOWN)
        => /\ call.result.header_row = HeaderNone
           /\ call.result.vaccine_columns = <<>>
           /\ call.result.df.rows = <<>>

\* the variant a loader names when it calls the untyped cleaner
VariantOfSheetType(sheet_type) ==
    CASE sheet_type = "national" -> NATIONAL
      [] sheet_type = "utla" -> LOCAL_AUTHORITY
      [] sheet_type = "time_series" -> TIME_SERIES

\* the smallest row index with the indicator in some cell, HeaderNone without one
SmallestRowWith(grid, indicator) ==
    LET hits == {r \in 1..Len(grid) :
                    \E c \in 1..Len(grid[r]) : grid[r][c] # NaN /\ Contains(grid[r][c], indicator)}
    IN  IF hits = {} THEN HeaderNone ELSE (CHOOSE r \in hits : \A q \in hits : r <= q) - 1

\* C9: the header locator returns the smallest row index whose row contains
\* the active variant's header_indicator; a row above it is never returned.
C9_HeaderIsFirstIndicatorRow ==
    /\ (call.op = "load_cleaned_csv_typed" /\ call.result.csv_type # UNKNOWN)
           => call.result.header_row =
                  SmallestRowWith(call.file.grid, header_indicator_of(call.result.csv_type))
    /\ call.op = "load_cleaned_csv"
           => call.header_row =
                  SmallestRowWith(call.file.grid,
                                  header_indicator_of(VariantOfSheetType(call.sheet_type)))

\* C10: when no row contains the indicator, the caller sees the degradation:
\* the returned value-column list is empty (the result carries no flag).
C10_HeaderNotFoundObservable ==
    (call.op = "load_cleaned_csv_typed" /\ call.result.csv_type # UNKNOWN
        /\ call.result.header_row = HeaderNone)
        => call.result.vaccine_columns = <<>>

(***************************************************************************)
(* Row classifier: the typed and the untyped row test applied to one row   *)
(***************************************************************************)
\* identifier cells: area codes, country names, year tokens, header texts,
\* titles and notes, padded and empty cells
IdentifierCells ==
    {"E10000019", " E10000019 ", "W06000001", "S12000033", "N09000001", "E1000001",
     "E100000190", "X10000019", "e10000019", "E10000019 Code",
     "England", " England ", "United Kingdom", "Scotland", "Wales", "Northern Ireland",
     "English", "England and Wales", "Coverage England",
     "2009 to 2010", "2009-2010", "2009-10", "Rates up to March", "Data relate to children",
     "Table 1", "Geographic area", "Financial year", "Unnamed: 0", "", "  ", NaN}

\* a row is its identifier cell followed by one value cell; the untyped test
\* also sees rows whose first cell is empty
ClassifiedRows ==
    {<<cell, "95.5">> : cell \in IdentifierCells}
    \cup {<<lead, cell>> : lead \in {"", NaN}, cell \in {"E10000019", "Rates up to March", ""}}

InitRows == db = EmptyDb /\ call = NoCall /\ cache = <<>> /\ loads = 0

ClassifyTyped(row, csv_type) ==
    /\ call' = [op |-> "is_data_row_typed", row |-> row, csv_type |-> csv_type,
                result |-> is_data_row_typed(row, csv_type)]
    /\ UNCHANGED <<db, cache, loads>>

ClassifyUntyped(row) ==
    /\ call' = [op |-> "is_data_row", row |-> row, result |-> is_data_row(row)]
    /\ UNCHANGED <<db, cache, loads>>

\* each test is applied once to the chosen row
NextRows ==
    /\ call = NoCall
    /\ \/ \E row \in ClassifiedRows, csv_type \in CSVStructureType : ClassifyTyped(row, csv_type)
       \/ \E row \in ClassifiedRows : ClassifyUntyped(row)

SpecRows == InitRows /\ [][NextRows]_vars

\* the identifier cell of a row as text, trimmed; an empty cell is ""
IdentifierOf(row) == IF row[1] = NaN THEN "" ELSE Strip(row[1])

\* an area code: one of E, S, W, N, then eight digits (text may follow)
AreaCodeShape(s) ==
    \E letter \in {"E", "S", "W", "N"} :
        /\ Len(s) >= 9
        /\ SubSeq(s, 1, 1) = letter
        /\ \A i \in 2..9 : SubSeq(s, i, i) \in {"0", "1", "2", "3", "4", "5", "6", "7", "8", "9"}

\* C11: for LOCAL_AUTHORITY, SPECIAL_PROGRAM and NATIONAL the typed row test is
\* true exactly when the identifier is non-empty after trimming, contains no
\* header keyword, and has the variant's shape (an area code; a country name
\* for NATIONAL); the empty and keyword rejections come before the shape test.
C11_DataRowByVariantShape ==
    (call.op = "is_data_row_typed"
        /\ call.csv_type \in {LOCAL_AUTHORITY, SPECIAL_PROGRAM, NATIONAL})
        => (call.result <=>
               /\ IdentifierOf(call.row) # ""
               /\ \A keyword \in {"Geographic", "Coverage", "Financial year", "Local authority",
                                  "Number aged", "Evaluation", "Code", "Unnamed"} :
                      ~Contains(IdentifierOf(call.row), keyword)
               /\ IF call.csv_type = NATIONAL
                  THEN IdentifierOf(call.row) \in {"United Kingdom", "England", "Scotland",
                                                   "Wales", "Northern Ireland"}
                  ELSE AreaCodeShape(IdentifierOf(call.row)))

C11_Witness ==
    /\ call.op = "is_data_row_typed"
    /\ call.csv_type = LOCAL_AUTHORITY
    /\ call.row[1] = "E10000019"
    /\ call.result

\* a financial-year token: 'YYYY to YYYY' or 'YYYY-YYYY'
FinancialYearToken(s) ==
    LET FourDigits(t) ==
            /\ Len(t) = 4
            /\ \A i \in 1..4 : SubSeq(t, i, i) \in {"0", "1", "2", "3", "4", "5", "6", "7", "8", "9"}
    IN  \/ Len(s) = 12 /\ FourDigits(SubSeq(s, 1, 4)) /\ SubSeq(s, 5, 8) = " to "
                       /\ FourDigits(SubSeq(s, 9, 12))
        \/ Len(s) = 9 /\ FourDigits(SubSeq(s, 1, 4)) /\ SubSeq(s, 5, 5) = "-"
                      /\ FourDigits(SubSeq(s, 6, 9))

\* C12: for TIME_SERIES and REGIONAL_TIME_SERIES a row is a data row only if its
\* identifier is a financial-year token; any other text is decoration.
C12_DataRowOnlyForYearToken ==
    (call.op = "is_data_row_typed"
        /\ call.csv_type \in {TIME_SERIES, REGIONAL_TIME_SERIES}
        /\ call.result)
        => FinancialYearToken(IdentifierOf(call.row))

(***************************************************************************)
(* Numeric cells: clean_numeric_value applied to one cell                  *)
(***************************************************************************)
NumericCells ==
    {"668,160", "1,234,567", "95.5", "94.037", "2.675", "0.125", "0", "0.0", "-5", "+3.5", "12",
     " 42 ", "1,000.50", "2.5", "90.25", "-0.125", "0.15", "[z]", "[c]", "[x]", "", "  ", "nan", NaN, "abc", "n/a", "-", ".",
     "1.2.3", "[note 1]", "12 [c]", "35% to 69%", " 35% to 69% ", "35 to 69", "10.5 to 20.5",
     "95.5%", "95%", "1,250%", "total 5%"}

DecimalPlaces == {NoRounding, 0, 1, 2}

InitNumeric == db = EmptyDb /\ call = NoCall /\ cache = <<>> /\ loads = 0

CleanNumeric(value, decimal_places, return_range) ==
    /\ call' = [op |-> "clean_numeric_value", value |-> value,
                decimal_places |-> decimal_places, return_range |-> return_range,
                result |-> IF return_range THEN clean_numeric_value_range(value, decimal_places)
                           ELSE clean_numeric_value(value, decimal_places)]
    /\ UNCHANGED <<db, cache, loads>>

NextNumeric ==
    /\ call = NoCall
    /\ \E value \in NumericCells, decimal_places \in DecimalPlaces, return_range \in BOOLEAN :
           CleanNumeric(value, decimal_places, return_range)

SpecNumeric == InitNumeric /\ [][NextNumeric]_vars

\* the text of a cell, trimmed; an empty cell is ""
CellText(value) == IF value = NaN THEN "" ELSE Strip(value)

\* a numeral: an optional sign, then digits with at most one point among them
NumeralText(t) ==
    LET body == IF t # "" /\ SubSeq(t, 1, 1) \in {"-", "+"} THEN SubSeq(t, 2, Len(t)) ELSE t
        points == {i \in 1..Len(body) : SubSeq(body, i, i) = "."}
    IN  /\ Cardinality(points) <= 1
        /\ \E i \in 1..Len(body) : IsDigit(SubSeq(body, i, i))
        /\ \A i \in 1..Len(body) : i \in points \/ IsDigit(SubSeq(body, i, i))

\* a cell that is a parsable number once ',' separators and '%' signs are taken out
ParsableNumber(value) == NumeralText(Replace(Replace(CellText(value), ",", ""), "%", ""))

\* C13 as stated: every input that is not a parsable number gives null, and
\* (null, null) when return_range is requested.
C13_UnparseableIsNullPair ==
    (call.op = "clean_numeric_value" /\ ~ParsableNumber(call.value))
        => IF call.return_range THEN call.result = <<None, NoRangeText>> ELSE call.result = None

\* C13 as amended: every input that is not a parsable number gives a null
\* value; with return_range the range text is null too, unless the text holds
\* 'to' and '%', which is returned trimmed as the range text.
C13_UnparseableIsNull ==
    (call.op = "clean_numeric_value" /\ ~ParsableNumber(call.value))
        => IF call.return_range
           THEN /\ call.result[1] = None
                /\ call.result[2] =
                       IF Contains(CellText(call.value), "to") /\ Contains(CellText(call.value), "%")
                       THEN CellText(call.value) ELSE NoRangeText
           ELSE call.result = None

C13_Witness ==
    /\ call.op = "clean_numeric_value"
    /\ call.value = "abc"
    /\ call.return_range
    /\ call.result = <<None, NoRangeText>>

\* a textual range '<a> to <b>': text on both sides of ' to ', each side with a digit
TextualRange(value) ==
    LET Sides(t, p) ==
            /\ p > 1
            /\ \E i \in 1..(p - 1) : IsDigit(SubSeq(t, i, i))
            /\ \E i \in (p + 4)..Len(t) : IsDigit(SubSeq(t, i, i))
    IN  value # NaN /\ Sides(value, Find(value, " to "))

\* C14: a textual range gives (null, the original text) when return_range is
\* requested and null otherwise; it is never made a number. The text is
\* compared without its surrounding blanks.
C14_RangeKeptAsText ==
    (call.op = "clean_numeric_value" /\ TextualRange(call.value))
        => IF call.return_range THEN call.result = <<None, CellText(call.value)>>
           ELSE call.result = None

\* digits in groups separated by ','
SeparatedDigits(t) ==
    /\ t # ""
    /\ \A i \in 1..Len(t) : IsDigit(SubSeq(t, i, i)) \/ SubSeq(t, i, i) = ","
    /\ IsDigit(SubSeq(t, 1, 1)) /\ IsDigit(SubSeq(t, Len(t), Len(t)))

\* C15: thousands separators and '%' signs are stripped before parsing: digits
\* with ',' separators give the integer of those digits, and a numeral followed
\* by '%' gives the number without the sign, not null.
C15_SeparatorsAndPercentStripped ==
    (call.op = "clean_numeric_value" /\ ~call.return_range /\ call.value # NaN)
        => /\ SeparatedDigits(CellText(call.value))
               => call.result = [kind |-> "int", e |-> 0,
                                 m |-> DigitsValue(Replace(CellText(call.value), ",", ""))]
           /\ (/\ Len(CellText(call.value)) > 1
               /\ SubSeq(CellText(call.value), Len(CellText(call.value)), Len(CellText(call.value))) = "%"
               /\ NumeralText(Replace(SubSeq(CellText(call.value), 1, Len(CellText(call.value)) - 1),
                                      ",", "")))
               => call.result =
                      clean_numeric_value(SubSeq(CellText(call.value), 1, Len(CellText(call.value)) - 1),
                                          call.decimal_places)

(***************************************************************************)
(* Header matching: match called once on a freshly constructed matcher     *)
(***************************************************************************)
HeaderPrefixes ==
    {"", "Coverage at 12 months ", "Coverage at 24 months ", "Coverage at 5 years ",
     "Coverage of ", "Number aged 12 months ", "Number aged 24 months ", "Number aged 5 years "}

HeaderSuffixes == {"", " (%)", " Prim"}

\* the whitespace put around a header: <<leading, trailing>>
HeaderPads == {<<"", "">>, <<" ", "  ">>}

ComposedHeader(prefix, i, suffix, pad) ==
    pad[1] \o prefix \o CANONICAL_VACCINES[i].vaccine_name \o suffix \o pad[2]

\* aliases, near misses, unrelated texts and rotavirus spellings
OtherHeaders ==
    {"MMR 1", "MMR dose 1", "PCV", "rota", "Rota", "Hep B", "HepB", "MenB boos", "PCV boos",
     "DTaP IPV Hib HepB", "mmr1", "MMR", "MMR3", "PCV2", "MenB Boosters", "Hib/MenC", "Hepatitis",
     "DTaP/IPV/Hib/HepC", "dtap/ipv/hib", "Hib/MenC Boost", "Totally Unrelated Text",
     "Completely Invalid Vaccine Name", "Notes", "Population", "",
     "ROTAVIRUS", "rotavirus vaccine", "Coverage of RotaVirus dose 2 (%)",
     "Coverage at 12 months Rotavirus (%)"}

InitHeaders == db = EmptyDb /\ call = NoCall /\ cache = <<>> /\ loads = 0

\* matcher.match(header_text): the result returned and the cache entry written
MatchHeader(header_text) ==
    /\ call' = [op |-> "match", header |-> header_text, result |-> Match(cache, header_text)]
    /\ cache' = CacheAfter(cache, {header_text})
    /\ UNCHANGED <<db, loads>>

NextHeaders ==
    /\ call = NoCall
    /\ \/ \E prefix \in HeaderPrefixes, i \in 1..Len(CANONICAL_VACCINES),
             suffix \in HeaderSuffixes, pad \in HeaderPads :
              MatchHeader(ComposedHeader(prefix, i, suffix, pad))
       \/ \E header_text \in OtherHeaders : MatchHeader(header_text)

SpecHeaders == InitHeaders /\ [][NextHeaders]_vars

\* the header as the matcher cleans it: trimmed, boilerplate taken out
CleanedHeader(header_text) == clean_header(header_text)

\* the similarity of the cleaned header to canonical name i, compared without case
ScoreOf(header_text, i) ==
    Ratio(Lower(CleanedHeader(header_text)), Lower(CANONICAL_VACCINES[i].vaccine_name))

AtLeastThreshold(ratio) == ratio.num * 5 >= 4 * ratio.den

\* C16: match resolves by exact canonical name, then by alias, then by fuzzy
\* match; the fuzzy step gives the code of a highest-scoring canonical name
\* only if its ratio is >= 0.80, and otherwise the header is unresolved.
C16_ExactAliasThenFuzzyAboveThreshold ==
    call.op = "match" =>
        LET names == {i \in 1..Len(CANONICAL_VACCINES) :
                         CANONICAL_VACCINES[i].vaccine_name = CleanedHeader(call.header)}
            aliased == {i \in 1..Len(CANONICAL_VACCINES) :
                           \E k \in 1..Len(CANONICAL_VACCINES[i].aliases) :
                               CANONICAL_VACCINES[i].aliases[k] = CleanedHeader(call.header)}
            best == {i \in 1..Len(CANONICAL_VACCINES) :
                        /\ AtLeastThreshold(ScoreOf(call.header, i))
                        /\ \A j \in 1..Len(CANONICAL_VACCINES) :
                               ScoreOf(call.header, j).num * ScoreOf(call.header, i).den
                                   <= ScoreOf(call.header, i).num * ScoreOf(call.header, j).den}
        IN  IF names # {} THEN \E i \in names : call.result = CANONICAL_VACCINES[i].vaccine_code
            ELSE IF aliased # {}
                 THEN \E i \in aliased : call.result = CANONICAL_VACCINES[i].vaccine_code
            ELSE IF best # {} THEN \E i \in best : call.result = CANONICAL_VACCINES[i].vaccine_code
            ELSE call.result = Unmatched

C16_Witness ==
    /\ call.op = "match"
    /\ call.header = "Completely Invalid Vaccine Name"
    /\ call.result = Unmatched

\* C17: every canonical name between a boilerplate prefix and a suffix, with
\* or without surrounding whitespace, resolves to its own vaccine code; a
\* header containing 'rotavirus' in any letter case resolves to Rota.
C17_BoilerplateStripped ==
    call.op = "match" =>
        /\ \A prefix \in HeaderPrefixes, i \in 1..Len(CANONICAL_VACCINES),
              suffix \in HeaderSuffixes, pad \in HeaderPads :
               call.header = ComposedHeader(prefix, i, suffix, pad)
                   => call.result = CANONICAL_VACCINES[i].vaccine_code
        /\ Contains(Lower(call.header), "rotavirus") => call.result = "Rota"

C17_Witness ==
    /\ call.op = "match"
    /\ call.header = " Coverage at 24 months DTaP/IPV/Hib Prim  "
    /\ call.result = "DTaP_IPV_Hib"

(***************************************************************************)
(* The matcher's cache over its lifetime: match and clear_cache in any     *)
(* order on one matcher                                                    *)
(***************************************************************************)
CachedHeaders ==
    {"MMR1", "Coverage at 12 months MMR1 (%)", "Invalid Vaccine", "rota", "MenB Boosters", "Notes"}

\* VaccineMatcher.get_match_statistics() on the cache c
get_match_statistics(c) ==
    [cache_size |-> Cardinality(DOMAIN c),
     cache_hits |-> Cardinality({h \in DOMAIN c : c[h] # Unmatched}),
     cache_misses |-> Cardinality({h \in DOMAIN c : c[h] = Unmatched})]

\* the headers matched since the matcher was constructed or its cache cleared
MatchedSoFar == IF call = NoCall THEN {} ELSE call.matched

InitMatcher == db = EmptyDb /\ call = NoCall /\ cache = <<>> /\ loads = 0

\* matcher.match(header_text), then get_match_statistics()
MatchCached(header_text) ==
    /\ cache' = CacheAfter(cache, {header_text})
    /\ call' = [op |-> "match", header |-> header_text, result |-> Match(cache, header_text),
                matched |-> MatchedSoFar \cup {header_text},
                statistics |-> get_match_statistics(cache')]
    /\ UNCHANGED <<db, loads>>

\* matcher.clear_cache(), then get_match_statistics()
ClearCache ==
    /\ cache' = <<>>
    /\ call' = [op |-> "clear_cache", matched |-> {}, statistics |-> get_match_statistics(cache')]
    /\ UNCHANGED <<db, loads>>

NextMatcher ==
    \/ \E header_text \in CachedHeaders : MatchCached(header_text)
    \/ ClearCache

SpecMatcher == InitMatcher /\ [][NextMatcher]_vars

JoinAreas ==
    <<[code |-> "E06000001", name |-> "Hartlepool", pct |-> "90.1", cnt |-> "450"],
      [code |-> "E06000002", name |-> "Middlesbrough", pct |-> "80.2", cnt |-> "360"]>>

\* the orders in which a sheet lists its data rows; <<>> is a sheet without data rows
JoinOrders == {<<>>, <<1>>, <<2>>, <<1, 2>>, <<2, 1>>}

JoinSheet(table, order, field) ==
    [name |-> DatasetName(table),
     grid |-> << <<"Table 4", NaN, NaN, NaN, NaN, NaN>>, LocalHeader >> \o
              [k \in 1..Len(order) |->
                  <<JoinAreas[order[k]].code, JoinAreas[order[k]].name, "North East", "A01", "500",
                    JoinAreas[order[k]][field]>>]]

JoinPair(pct_order, cnt_order) ==
    <<JoinSheet("T4a_UTLA12m", pct_order, "pct"), JoinSheet("T4b_UTLA12m", cnt_order, "cnt")>>

\* the store after the reference loaders ran over a T4a sheet listing both areas
InitLocalJoin ==
    /\ db = load_financial_years(load_age_cohorts(load_vaccines(
                load_geographic_areas(EmptyDb, JoinSheet("T4a_UTLA12m", <<1, 2>>, "pct")))))
    /\ call = NoCall
    /\ cache = <<>>
    /\ loads = 0

NextLocalJoin ==
    /\ loads < MaxLoads
    /\ \E pct_order \in JoinOrders, cnt_order \in JoinOrders :
           LoadLocalAuthority(JoinPair(pct_order, cnt_order))

SpecLocalJoin == InitLocalJoin /\ [][NextLocalJoin]_vars

\* C19: the two sheets are joined by area code: every stored row of area A has
\* the percentage of the percentage-sheet row of A and the count of the
\* count-sheet row of A (no count when the count sheet has no row of A),
\* whatever the order or number of rows in the two sheets.
C19_JoinedByAreaCode ==
    \A r \in 1..Len(db.local_authority_coverage) :
        \A a \in 1..Len(JoinAreas) :
            db.local_authority_coverage[r].area_code = JoinAreas[a].code
                => /\ db.local_authority_coverage[r].coverage_percentage
                          = clean_numeric_value(JoinAreas[a].pct, 2)
                   /\ db.local_authority_coverage[r].vaccinated_count
                          \in {None, clean_numeric_value(JoinAreas[a].cnt, NoRounding)}

(***************************************************************************)
(* Regional time series: sheets with years in rows and regions in columns  *)
(***************************************************************************)
\* the value columns of a sheet, after 'Financial year' and 'Notes'
RegionLayouts ==
    {<<"England", "North East", "Narnia">>,
     <<"North East", "MMR1", "England">>,
     <<"London", "[note 3]", "England", "PCV1">>}

\* the identifier cells of a sheet's rows, in order
RegionYears ==
    {<<"2022 to 2023", "2023 to 2024">>,
     <<"2023-2024">>,
     <<"Rates up to March", "2008 to 2009", "2022 to 2023">>}

RegionalNames == {DatasetName("T14_RegDTaP24m"), DatasetName("T15_RegMMR24m")}

\* the cell of a row under a column: the column's tens, the row's decimal
RegionalCell(year_text, column) ==
    (CASE column = "England" -> "92" [] column = "North East" -> "93" [] column = "London" -> "94"
       [] column = "Narnia" -> "95" [] column = "MMR1" -> "96" [] OTHER -> "97")
    \o (CASE year_text \in {"2022 to 2023"} -> ".2" [] year_text \in {"2023 to 2024", "2023-2024"} -> ".3"
          [] OTHER -> ".8")

RegionalGrid(layout, years) ==
    << <<"Table 14">> \o [c \in 1..(Len(layout) + 1) |-> NaN],
       <<"Financial year", "Notes">> \o layout >> \o
    [i \in 1..Len(years) |->
        <<years[i], NaN>> \o [c \in 1..Len(layout) |-> RegionalCell(years[i], layout[c])]]

InitRegional ==
    /\ db = load_financial_years(load_age_cohorts(load_vaccines(
                load_geographic_areas(EmptyDb, JoinSheet("T4a_UTLA12m", <<1, 2>>, "pct")))))
    /\ call = NoCall
    /\ cache = <<>>
    /\ loads = 0

NextRegional ==
    /\ loads < MaxLoads
    /\ \E name \in RegionalNames, layout \in RegionLayouts, years \in RegionYears :
           LoadRegionalTimeSeries([name |-> name, grid |-> RegionalGrid(layout, years)])

SpecRegional == InitRegional /\ [][NextRegional]_vars

\* the area a column header names: a region, or the country for 'England'
RegionCodeOf(column) ==
    CASE column = "England" -> "E92000001"
      [] column = "North East" -> "E12000001"
      [] column = "London" -> "E12000007"
      [] OTHER -> ""

\* the financial year an identifier cell names, "" when it names none on record
FinancialYearOf(year_text) ==
    CASE year_text = "2022 to 2023" -> "2022-2023"
      [] year_text \in {"2023 to 2024", "2023-2024"} -> "2023-2024"
      [] OTHER -> ""

\* the single vaccine a regional file is about
VaccineOfRegionalFile(name) ==
    IF name = DatasetName("T14_RegDTaP24m") THEN "DTaP_IPV_Hib_HepB" ELSE "MMR1"

\* the cells of the sheet that stand under a region column in a year row
RegionCellsOf(grid) ==
    {[year |-> FinancialYearOf(grid[i][1]), area_code |-> RegionCodeOf(grid[2][c]),
      cell |-> grid[i][c]] :
        i \in {k \in 3..Len(grid) : FinancialYearOf(grid[k][1]) # ""},
        c \in {k \in 3..Len(grid[2]) : RegionCodeOf(grid[2][k]) # ""}}

\* C20: a regional load writes, for each year row and each region column, one
\* row with the row's year, the area the column header names (the country for
\* 'England') and the file's single vaccine; no column header is taken for a
\* vaccine and a column naming no area writes nothing.
C20_RegionsAreColumns ==
    /\ \A r \in 1..Len(db.regional_time_series) :
           /\ db.regional_time_series[r].area_code \in {"E92000001", "E12000001", "E12000007"}
           /\ db.regional_time_series[r].vaccine \in {"DTaP_IPV_Hib_HepB", "MMR1"}
    /\ (call.op = "load_regional_time_series_from_csv" /\ call.outcome = "committed")
           => /\ \A w \in RegionCellsOf(call.file.grid) :
                     \E r \in 1..Len(db.regional_time_series) :
                         db.regional_time_series[r] =
                             [year |-> w.year, area_code |-> w.area_code, cohort |-> 24,
                              vaccine |-> VaccineOfRegionalFile(call.file.name),
                              coverage_percentage |-> clean_numeric_value(w.cell, 2)]
              /\ loads = 1
                     => /\ Len(db.regional_time_series)
                               = Cardinality(RegionCellsOf(call.file.grid))
                        /\ \A r \in 1..Len(db.regional_time_series) :
                               db.regional_time_series[r].vaccine
                                   = VaccineOfRegionalFile(call.file.name)

C20_Witness ==
    /\ call.op = "load_regional_time_series_from_csv"
    /\ call.outcome = "committed"
    /\ call.file.grid = RegionalGrid(<<"North East", "MMR1", "England">>, <<"2022 to 2023", "2023 to 2024">>)
    /\ Len(db.regional_time_series) = 4

(***************************************************************************)
(* Local-authority rows whose eligible-population cell is missing          *)
(***************************************************************************)
NullHeader ==
    <<"Code", "Local authority", "Region name", "ODS code", "Number aged 12 months",
      "Coverage at 12 months MMR1 (%)", "Coverage at 12 months Rotavirus (%)">>

\* the eligible-population cell: a count, a suppression marker, a blank
PopulationCells == {"500", "[c]", NaN, ""}

\* the cells of the two coverage columns of the percentage sheet
FirstCoverageCells == {"95.5", "[c]", "150"}
SecondCoverageCells == {"90.2", "[c]"}

\* the cells of the first column of the count sheet
CountCells == {"450", "[c]"}

NullPair(pop, first, second, cnt) ==
    << [name |-> DatasetName("T4a_UTLA12m"),
        grid |-> << <<"Table 4a", NaN, NaN, NaN, NaN, NaN, NaN>>, NullHeader,
                    <<"E06000001", "Hartlepool", "North East", "A01", pop, first, second>> >>],
       [name |-> DatasetName("T4b_UTLA12m"),
        grid |-> << <<"Table 4b", NaN, NaN, NaN, NaN, NaN, NaN>>, NullHeader,
                    <<"E06000001", "Hartlepool", "North East", "A01", pop, cnt, "440">> >>] >>

NextLocalNull ==
    /\ loads < MaxLoads
    /\ \E pop \in PopulationCells, first \in FirstCoverageCells, second \in SecondCoverageCells,
          cnt \in CountCells :
           LoadLocalAuthority(NullPair(pop, first, second, cnt))

SpecLocalNull == InitLocalJoin /\ [][NextLocalNull]_vars

\* the vaccine of a coverage column of NullHeader
VaccineOfColumn(k) == IF k = 6 THEN "MMR1" ELSE "Rota"

\* C21: when the eligible-population cell of a local-authority row is missing
\* or suppressed and a coverage cell of the row is a valid percentage, the load
\* does not raise and the record of that cell has eligible_population null and
\* coverage_percentage the parsed value.
C21_NullPopulationKeepsCoverage ==
    (/\ call.op = "load_local_authority_coverage_from_paired_csvs"
     /\ call.file[1].grid[3][5] \in {"[c]", NaN, ""})
        => /\ call.outcome = "committed"
           /\ \A k \in {6, 7} :
                  call.file[1].grid[3][k] \in {"95.5", "90.2"}
                      => \E r \in 1..Len(db.local_authority_coverage) :
                             /\ db.local_authority_coverage[r].area_code = "E06000001"
                             /\ db.local_authority_coverage[r].vaccine = VaccineOfColumn(k)
                             /\ db.local_authority_coverage[r].eligible_population = None
                             /\ db.local_authority_coverage[r].coverage_percentage
                                    = clean_numeric_value(call.file[1].grid[3][k], 2)

(***************************************************************************)
(* The multi-file run, statement by statement.  db is the committed store; *)
(* call.session is the store as the run's session sees it: what is         *)
(* committed and what the loaders wrote since the last commit.             *)
(***************************************************************************)
\* the statements of reload_all_data in program order
RunStepsFactsEarly ==
    <<"load_geographic_areas", "load_vaccines", "load_age_cohorts", "national_coverage",
      "load_financial_years", "local_authority_coverage", "england_time_series",
      "regional_time_series", "special_programs", "return">>

RunSteps ==
    <<"load_geographic_areas", "load_vaccines", "load_age_cohorts", "load_financial_years",
      "national_coverage", "local_authority_coverage", "england_time_series",
      "regional_time_series", "special_programs", "return">>

DimensionSteps ==
    {"load_geographic_areas", "load_vaccines", "load_age_cohorts", "load_financial_years"}

\* the sheets load_all_<group> finds in the directory, in the order of its list
GroupFiles(dir, step) ==
    CASE step = "national_coverage" -> dir.national
      [] step = "local_authority_coverage" -> dir.local_authority
      [] step = "england_time_series" -> dir.england
      [] step = "regional_time_series" -> dir.regional
      [] step = "special_programs" -> dir.special

\* the key of the summary a group's count goes to
GroupKey(step) == IF step = "local_authority_coverage" THEN "la_coverage" ELSE step

GroupWarning(step) ==
    CASE step = "national_coverage" -> "National coverage not loaded"
      [] step = "local_authority_coverage" -> "Local authority data not loaded"
      [] step = "england_time_series" -> "England time series not loaded"
      [] step = "regional_time_series" -> "Regional time series not loaded"
      [] step = "special_programs" -> "Special programs not loaded"

\* the loader load_all_<group> calls on one sheet
LoadOne(step, d, c, file) ==
    CASE step = "national_coverage" -> load_national_coverage_from_csv(d, c, file)
      [] step = "local_authority_coverage" ->
             load_local_authority_coverage_from_paired_csvs(d, c, file[1], file[2])
      [] step = "england_time_series" -> load_england_time_series_from_csv(d, c, file)
      [] step = "regional_time_series" -> load_regional_time_series_from_csv(d, file)
      [] step = "special_programs" -> load_special_programs_from_csv(d, file)

\* the name a sheet (or the 'a' sheet of a pair) goes by
FileName(step, file) == IF step = "local_authority_coverage" THEN file[1].name ELSE file.name

\* a sheet whose last n rows the loader did not get to
Truncated(step, file, n) ==
    IF step = "local_authority_coverage"
    THEN <<[file[1] EXCEPT !.grid = SubSeq(@, 1, Len(@) - n)], file[2]>>
    ELSE [file EXCEPT !.grid = SubSeq(@, 1, Len(@) - n)]

\* the rows of the fact tables of a store, as <<table, row>>
FactRows(d) == UNION {{<<t, d[t][i]>> : i \in 1..Len(d[t])} : t \in FactTables}

\* a T7 sheet shorter than the header row the loader reads it with
ShortHepBSheet ==
    [name |-> DatasetName("T7_UTLAHepB"), grid |-> << <<"Table 7", NaN, NaN, NaN, NaN>> >>]

\* a directory whose first special-programme sheet cannot be read
BrokenDir == [Dir("95.5") EXCEPT !.special = <<ShortHepBSheet, SpecialSheet("95.5")>>]

\* a directory whose national sheet has a row for Scotland after that of England
WideDir ==
    [Dir("95.5") EXCEPT !.national =
        <<[NationalSheet("95.5") EXCEPT !.grid = Append(@, <<"Scotland", NaN, "50,000", "93.1", "92.0">>)]>>]

RunDirs == {WideDir, BrokenDir, NoDir}

\* how many rows before the end of a sheet a loader may fail
FaultPoints == {1, 2}

\* reload_all_data(session, csv_path) is entered
StartRun(utla_sheet, dir) ==
    /\ call = NoCall
    /\ loads < MaxLoads
    /\ call' = [op |-> "reload_all_data", file |-> [csv_path |-> dir, utla_sheet |-> utla_sheet],
                pc |-> 1, index |-> 1, session |-> db,
                summary |-> [geographic_areas |-> 0, vaccines |-> 0, age_cohorts |-> 0,
                             financial_years |-> 0, national_coverage |-> 0, la_coverage |-> 0,
                             england_time_series |-> 0, regional_time_series |-> 0,
                             special_programs |-> 0, warnings |-> <<>>],
                trail |-> <<>>, attempted |-> {}, lost |-> {}, faults |-> 0]
    /\ loads' = loads + 1
    /\ UNCHANGED <<db, cache>>

\* is the run at the statement of this kind
At(steps) == call.op = "reload_all_data" /\ RunSteps[call.pc] \in steps

\* one reference loader and the count taken after it; the loader commits
RunDimension ==
    LET Done(step, d, key, count) ==
            /\ db' = d
            /\ call' = [call EXCEPT !.pc = @ + 1, !.session = d, !.summary[key] = count,
                                    !.trail = Append(@, step)]
        Counted(step, d) ==
            CASE step = "load_geographic_areas" -> Done(step, d, "geographic_areas", Cardinality(d.areas))
              [] step = "load_vaccines" -> Done(step, d, "vaccines", Cardinality(d.vaccines))
              [] step = "load_age_cohorts" -> Done(step, d, "age_cohorts", Cardinality(d.cohorts))
              [] step = "load_financial_years" -> Done(step, d, "financial_years", Cardinality(d.years))
        Loaded_(step) ==
            CASE step = "load_geographic_areas" ->
                     Counted(step, load_geographic_areas(call.session, call.file.utla_sheet))
              [] step = "load_vaccines" -> Counted(step, load_vaccines(call.session))
              [] step = "load_age_cohorts" -> Counted(step, load_age_cohorts(call.session))
              [] step = "load_financial_years" -> Counted(step, load_financial_years(call.session))
    IN  /\ At(DimensionSteps)
        /\ Loaded_(RunSteps[call.pc])
        /\ UNCHANGED <<cache, loads>>

\* the branch of 'if csv_path.exists()' that only warns
SkipFacts ==
    /\ At(FactTables)
    /\ ~call.file.csv_path.exists
    /\ call' = [call EXCEPT !.pc = @ + 1,
                            !.summary.warnings =
                                IF @ = <<>> THEN <<"CSV directory not found">> ELSE @]
    /\ UNCHANGED <<db, cache, loads>>

\* load_all_<group> calls the loader on its next sheet; an exception of the
\* loader leaves load_all_<group> and is caught by the group's try block
RunFile ==
    LET Next_(step, file, r) ==
            /\ call' = IF r.outcome = "ValueError"
                       THEN [call EXCEPT !.pc = @ + 1, !.index = 1,
                                         !.summary.warnings = Append(@, GroupWarning(step)),
                                         !.trail = Append(@, step),
                                         !.attempted = @ \cup {FileName(step, file)}]
                       ELSE [call EXCEPT !.index = @ + 1, !.session = r.db,
                                         !.trail = Append(@, step),
                                         !.attempted = @ \cup {FileName(step, file)}]
            /\ db' = IF r.outcome = "committed" THEN r.db ELSE db
            /\ cache' = IF r.outcome = "ValueError" THEN cache ELSE CacheAfter(cache, r.matched)
        Called(step, file) == Next_(step, file, LoadOne(step, call.session, cache, file))
    IN  /\ At(FactTables)
        /\ call.file.csv_path.exists
        /\ call.index <= Len(GroupFiles(call.file.csv_path, RunSteps[call.pc]))
        /\ Called(RunSteps[call.pc], GroupFiles(call.file.csv_path, RunSteps[call.pc])[call.index])
        /\ UNCHANGED loads

\* the loader fails unexpectedly n rows before the end of its sheet: what it
\* wrote stays in the session (no loader and no caller rolls back), nothing is
\* committed, and the exception is caught by the group's try block
FailFile(n) ==
    LET Failed(step, file, r) ==
            /\ call' = [call EXCEPT !.pc = @ + 1, !.index = 1, !.session = r.db,
                                    !.summary.warnings = Append(@, GroupWarning(step)),
                                    !.trail = Append(@, step),
                                    !.attempted = @ \cup {FileName(step, file)},
                                    !.lost = @ \cup (FactRows(r.db) \ FactRows(call.session)),
                                    !.faults = @ + 1]
            /\ cache' = CacheAfter(cache, r.matched)
        Called(step, file) ==
            /\ n < Len(IF step = "local_authority_coverage" THEN file[1].grid ELSE file.grid)
            /\ Failed(step, file, LoadOne(step, call.session, cache, Truncated(step, file, n)))
    IN  /\ At(FactTables)
        /\ call.file.csv_path.exists
        /\ call.faults = 0
        /\ call.index <= Len(GroupFiles(call.file.csv_path, RunSteps[call.pc]))
        /\ Called(RunSteps[call.pc], GroupFiles(call.file.csv_path, RunSteps[call.pc])[call.index])
        /\ UNCHANGED <<db, loads>>

\* load_all_<group> returned: the group's count is taken through the session
EndGroup ==
    /\ At(FactTables)
    /\ call.file.csv_path.exists
    /\ call.index > Len(GroupFiles(call.file.csv_path, RunSteps[call.pc]))
    /\ call' = [call EXCEPT !.pc = @ + 1, !.index = 1,
                            !.summary[GroupKey(RunSteps[call.pc])] =
                                Len(call.session[RunSteps[call.pc]])]
    /\ UNCHANGED <<db, cache, loads>>

NextRun ==
    \/ \E utla_sheet \in UtlaSheets, dir \in RunDirs : StartRun(utla_sheet, dir)
    \/ RunDimension
    \/ SkipFacts
    \/ RunFile
    \/ \E n \in FaultPoints : FailFile(n)
    \/ EndGroup

SpecRun == Init /\ [][NextRun]_vars

\* a run without a failure leaves what reload_all_data, taken whole, leaves
RunIsReloadAllData ==
    LET Same(r) == db = r.db /\ cache = r.cache /\ call.summary = r.summary
    IN  (At({"return"}) /\ call.faults = 0)
            => Same(reload_all_data(EmptyDb, <<>>, call.file.utla_sheet, call.file.csv_path))

\* the place of a statement in the dependency order: the dimension loads,
\* then National, LocalAuthority, England and regional time series, SpecialProgram
DependencyRank(step) ==
    CASE step \in {"load_geographic_areas", "load_vaccines", "load_age_cohorts",
                   "load_financial_years"} -> 0
      [] step = "national_coverage" -> 1
      [] step = "local_authority_coverage" -> 2
      [] step = "england_time_series" -> 3
      [] step = "regional_time_series" -> 4
      [] step = "special_programs" -> 5

\* the statements of the run carried out so far
Carried == {call.trail[i] : i \in 1..Len(call.trail)}

\* C22: in a run every dimension load has completed before the first fact load
\* starts, the fact loads come in the order National, LocalAuthority, England
\* time series, regional time series, SpecialProgram, and no fact row is in
\* the session while a dimension load is still to come.
C22_DimensionsThenFactsInOrder ==
    call.op = "reload_all_data"
        => /\ \A i \in 1..Len(call.trail) : \A j \in i..Len(call.trail) :
                  DependencyRank(call.trail[i]) <= DependencyRank(call.trail[j])
           /\ (\E step \in Carried : DependencyRank(step) > 0)
                  => {"load_geographic_areas", "load_vaccines", "load_age_cohorts",
                      "load_financial_years"} \subseteq Carried
           /\ FactRows(call.session) # {}
                  => {"load_geographic_areas", "load_vaccines", "load_age_cohorts",
                      "load_financial_years"} \subseteq Carried

\* a run that returned after loading a sheet of every group
C22_Witness ==
    /\ At({"return"})
    /\ call.faults = 0
    /\ \A t \in FactTables : t \in Carried /\ db[t] # <<>>

\* the names of the sheets a directory holds, over all groups
SheetsOf(dir) ==
    UNION {{FileName(t, GroupFiles(dir, t)[i]) : i \in 1..Len(GroupFiles(dir, t))} : t \in FactTables}

\* C23: a run attempts every sheet of the directory, also after a loader raised
\* on an earlier sheet, and returns the summary with the counts and warnings.
C23_EveryFileAttempted ==
    (At({"return"}) /\ call.faults = 0 /\ call.file.csv_path.exists)
        => SheetsOf(call.file.csv_path) \subseteq call.attempted

\* C24: the rows a sheet's load added or changed before it failed are rolled
\* back: none of them is in the committed store afterwards, not even after a
\* later sheet committed.
C24_FailedFileRolledBack ==
    call.op = "reload_all_data" => \A row \in call.lost : row \notin FactRows(db)

(***************************************************************************)
(* The reference loaders, called any number of times around fact loads     *)
(***************************************************************************)
ReferenceLoaders ==
    {"load_geographic_areas", "load_vaccines", "load_age_cohorts", "load_financial_years",
     "load_all_reference_data"}

\* the rows of the dimension tables of a store, as <<table, key>>
DimensionRows(d) ==
    {<<"geographic_areas", a.area_code>> : a \in d.areas}
    \cup {<<"vaccines", v>> : v \in d.vaccines}
    \cup {<<"age_cohorts", c>> : c \in d.cohorts}
    \cup {<<"financial_years", y>> : y \in d.years}

\* the rows a reference loader deletes before it inserts:
\* session.query(Vaccine).delete() in load_all_reference_data, none elsewhere
DeletedBy(op, d) ==
    IF op = "load_all_reference_data" THEN {<<"vaccines", v>> : v \in d.vaccines} ELSE {}

\* load_all_reference_data(session): the vaccines deleted and inserted anew
\* from the canonical list, then the three other loaders
load_all_reference_data(d, sheet) ==
    load_financial_years(load_age_cohorts(load_geographic_areas(
        load_vaccines([d EXCEPT !.vaccines = {}]), sheet)))

\* a reference loader called on the store
ReferenceLoad(op, d, sheet) ==
    CASE op = "load_geographic_areas" -> load_geographic_areas(d, sheet)
      [] op = "load_vaccines" -> load_vaccines(d)
      [] op = "load_age_cohorts" -> load_age_cohorts(d)
      [] op = "load_financial_years" -> load_financial_years(d)
      [] op = "load_all_reference_data" -> load_all_reference_data(d, sheet)

\* one call of a reference loader, with the rows it deleted and the rows it inserted
LoadReference(op, sheet) ==
    LET Called(d) ==
            /\ db' = d
            /\ call' = [op |-> op, file |-> sheet, outcome |-> "committed",
                        removed |-> DeletedBy(op, db),
                        created |-> DeletedBy(op, db) \cup (DimensionRows(d) \ DimensionRows(db))]
    IN  /\ Called(ReferenceLoad(op, db, sheet))
        /\ UNCHANGED <<cache, loads>>

NextReference ==
    \/ \E op \in ReferenceLoaders, sheet \in UtlaSheets : LoadReference(op, sheet)
    \/ /\ loads < MaxLoads
       /\ \/ \E cell \in CoverageCells : LoadNational(NationalSheet(cell))
          \/ \E pair \in LocalPairs : LoadLocalAuthority(pair)

SpecReference == Init /\ [][NextReference]_vars

\* C25: the reference loaders are create-if-absent and never delete: called any
\* number of times, before or after fact loads, they leave one row per
\* dimension key, remove no existing row, insert no row that existed, and do
\* not raise.
C25_DimensionsCreateIfAbsent ==
    /\ \A a \in db.areas : \A b \in db.areas : a.area_code = b.area_code => a = b
    /\ call.op \in ReferenceLoaders
           => /\ call.outcome = "committed"
              /\ call.removed = {}
              /\ \A row \in call.created : row \notin call.removed

(***************************************************************************)
(* Local-authority sheets listing areas of every kind                      *)
(***************************************************************************)
\* area codes a sheet may list: two local authorities on record, one that is
\* not, a region and a country
ListedCodes == <<"E06000001", "E06000002", "E06000099", "E12000001", "E92000001">>

\* the rows of a sheet: none, one code, or two codes in either order
ListedRows ==
    {<<>>} \cup {<<i>> : i \in 1..Len(ListedCodes)}
    \cup {<<i, j>> : i \in 1..Len(ListedCodes), j \in 1..Len(ListedCodes)}

ListedSheet(table, rows, value) ==
    [name |-> DatasetName(table),
     grid |-> << <<"Table 4", NaN, NaN, NaN, NaN, NaN>>, LocalHeader >> \o
              [k \in 1..Len(rows) |->
                  <<ListedCodes[rows[k]], "Area", "North East", "A01", "500", value>>]]

NextLocalAreas ==
    /\ loads < MaxLoads
    /\ \E rows \in ListedRows :
           LoadLocalAuthority(<<ListedSheet("T4a_UTLA12m", rows, "90.1"),
                                ListedSheet("T4b_UTLA12m", rows, "450")>>)

SpecLocalAreas == InitLocalJoin /\ [][NextLocalAreas]_vars

\* C26: every stored local-authority row references an area on record with
\* area_type 'utla'; rows of regions, countries and unknown codes store nothing.
C26_OnlyKnownUtlas ==
    \A r \in 1..Len(db.local_authority_coverage) :
        /\ \E a \in db.areas :
               /\ a.area_code = db.local_authority_coverage[r].area_code
               /\ a.area_type = "utla"
        /\ db.local_authority_coverage[r].area_code \in {"E06000001", "E06000002"}

\* a sheet listing a region and a local authority was loaded, and stored one row
C26_Witness ==
    /\ call.op = "load_local_authority_coverage_from_paired_csvs"
    /\ call.outcome = "committed"
    /\ Len(call.file[1].grid) = 4
    /\ call.file[1].grid[3][1] = "E12000001"
    /\ call.file[1].grid[4][1] = "E06000002"
    /\ Len(db.local_authority_coverage) = 1

(***************************************************************************)
(* Rounding of a parsed number                                             *)
(***************************************************************************)
\* the multiple of 10^-decimal_places nearest to the parsed double, the one
\* farther from zero when the double lies exactly halfway between two
NearestHalfUp(num, decimal_places) ==
    IF num = None \/ decimal_places = NoRounding THEN num
    ELSE IF num.e <= decimal_places THEN num
    ELSE LET Float(n) == [kind |-> "float", m |-> n.m, e |-> n.e]
             Up(r, unit, error) ==
                 IF 2 * r > unit THEN TRUE
                 ELSE IF 2 * r < unit THEN FALSE
                 ELSE error >= 0
             Nearest(q, r, unit, mag) ==
                 Float(Normalize((IF num.m < 0 THEN -1 ELSE 1)
                                  * (IF Up(r, unit, FloatError(mag, num.e)) THEN q + 1 ELSE q),
                                 decimal_places))
             Scaled(mag, unit) == Nearest(mag \div unit, mag % unit, unit, mag)
         IN  Scaled(IF num.m < 0 THEN -num.m ELSE num.m, Pow10(num.e - decimal_places))

\* the number a call returned, with or without return_range
ReturnedNumber == IF call.return_range THEN call.result[1] ELSE call.result

\* C27: a successfully parsed number is returned rounded to the nearest
\* multiple of 10^-decimal_places, exact ties going away from zero, and is
\* returned unrounded when decimal_places is not given.
C27_RoundedHalfUp ==
    (call.op = "clean_numeric_value" /\ clean_numeric_value(call.value, NoRounding) # None)
        => ReturnedNumber = NearestHalfUp(clean_numeric_value(call.value, NoRounding),
                                          call.decimal_places)

(***************************************************************************)
(* Suppressed ranges in the special-programme sheets                       *)
(***************************************************************************)
SuppressedCells == {"35% to 69%", "70% to 89%", "75.0", "88.1", "[c]"}
EligibleCells == {"50", "[c]"}
ProgramAreas == {"E92000001", "E06000001"}

\* a T8 sheet whose one row carries the given area, eligible and coverage cells
RangeSheet(code, eligible, cell) ==
    [name |-> DatasetName("T8_UTLABCG"),
     grid |-> SpecialPreamble \o
              << <<"Code", "Local authority", "Number aged 12 months eligible",
                   "Number aged 12 months vaccinated", "Coverage at 12 months (%)">>,
                 <<code, "Area", eligible, "45", cell>> >> ]

NextSpecialRange ==
    /\ loads < MaxLoads
    /\ \E code \in ProgramAreas, eligible \in EligibleCells, cell \in SuppressedCells :
           LoadSpecialPrograms(RangeSheet(code, eligible, cell))

SpecSpecialRange == InitLocalJoin /\ [][NextSpecialRange]_vars

\* the range text of a coverage cell, NoRangeText when it holds none
RangeTextOf(cell) == clean_numeric_value_range(cell, 2)[2]

\* the data row of the sheet just loaded
LoadedRow == call.file.grid[Len(call.file.grid)]

\* the special-programme rows stored under the natural key of that row
LoadedProgramRows ==
    {i \in 1..Len(db.special_programs) :
        /\ db.special_programs[i].year = CurrentYear
        /\ db.special_programs[i].area_code = LoadedRow[1]
        /\ db.special_programs[i].cohort = 12
        /\ db.special_programs[i].program_type = "BCG"}

\* C28: after a special-programme load of a sheet whose coverage cell holds a
\* suppressed range, the row of that year, area, programme and cohort has no
\* coverage_percentage and has the range text as its coverage_range, on a
\* first load and on a re-load alike.
C28_RangeTextStored ==
    (/\ call.op = "load_special_programs_from_csv"
     /\ call.outcome = "committed"
     /\ RangeTextOf(LoadedRow[5]) # NoRangeText)
        => /\ LoadedProgramRows # {}
           /\ \A i \in LoadedProgramRows :
                  /\ db.special_programs[i].coverage_percentage = None
                  /\ IF db.special_programs[i].coverage_range = None THEN FALSE
                     ELSE db.special_programs[i].coverage_range = RangeTextOf(LoadedRow[5])

(***************************************************************************)
(* Two loads against the shared store, each in a session of its own        *)
(***************************************************************************)
Workers == {1, 2}
WorkerAreas == {"E06000001", "E06000002"}
WorkerCells == {"95.5", "90.2"}

\* a worker between loads
Idle == [pc |-> "idle"]

\* is the worker inside a load: past its lookup, before its commit
InLoad(worker) == worker.pc \in {"looked_up", "pending"}

InitWorkers ==
    /\ db = load_financial_years(load_age_cohorts(load_vaccines(
                load_geographic_areas(EmptyDb, JoinSheet("T4a_UTLA12m", <<1, 2>>, "pct")))))
    /\ \E serialized \in BOOLEAN :
           call = [op |-> "workers", file |-> "none", serialized |-> serialized,
                   worker |-> [w \in Workers |-> Idle]]
    /\ cache = <<>>
    /\ loads = 0

\* existing = session.query(LocalAuthorityCoverage).filter_by(...).first(): the
\* worker reads the committed table; a serialized run starts a load only when
\* no other load is under way
Lookup(w, area_code, cell) ==
    /\ loads < MaxLoads
    /\ ~InLoad(call.worker[w])
    /\ call.serialized => \A o \in Workers : ~InLoad(call.worker[o])
    /\ call' = [call EXCEPT !.worker[w] =
                   [pc |-> "looked_up",
                    key |-> [year |-> CurrentYear, area_code |-> area_code,
                             cohort |-> 12, vaccine |-> "MMR1"],
                    measured |-> [eligible_population |-> clean_numeric_value("500", NoRounding),
                                  vaccinated_count |-> None,
                                  coverage_percentage |-> clean_numeric_value(cell, 2)],
                    view |-> db.local_authority_coverage]]
    /\ loads' = loads + 1
    /\ UNCHANGED <<db, cache>>

\* the if existing: ... else: session.add(coverage) branch, on the rows the
\* worker's lookup saw
AddOrUpdate(w) ==
    /\ call.worker[w].pc = "looked_up"
    /\ call' = [call EXCEPT !.worker[w] =
                   [pc |-> "pending", key |-> @.key, measured |-> @.measured, view |-> @.view,
                    pending |-> Upsert(@.view, @.key, @.measured, <<>>)]]
    /\ UNCHANGED <<db, cache, loads>>

\* session.commit() of a pending INSERT: unique_local_authority_coverage rejects
\* a second row of the key
CommitInsert(w) ==
    LET worker == call.worker[w]
    IN  /\ worker.pc = "pending"
        /\ Len(worker.pending) > Len(worker.view)
        /\ IF FindRow(db.local_authority_coverage, worker.key) # 0
           THEN /\ call' = [call EXCEPT !.worker[w].pc = "IntegrityError"]
                /\ UNCHANGED db
           ELSE /\ call' = [call EXCEPT !.worker[w].pc = "committed"]
                /\ db' = [db EXCEPT !.local_authority_coverage =
                             Append(@, worker.pending[Len(worker.pending)])]
        /\ UNCHANGED <<cache, loads>>

\* session.commit() of a pending UPDATE of the row the lookup found
CommitUpdate(w) ==
    LET worker == call.worker[w]
    IN  /\ worker.pc = "pending"
        /\ Len(worker.pending) = Len(worker.view)
        /\ call' = [call EXCEPT !.worker[w].pc = "committed"]
        /\ db' = [db EXCEPT !.local_authority_coverage[FindRow(worker.view, worker.key)] =
                     UpdateRow(@, worker.measured)]
        /\ UNCHANGED <<cache, loads>>

NextWorkers ==
    \E w \in Workers :
        \/ \E area_code \in WorkerAreas, cell \in WorkerCells : Lookup(w, area_code, cell)
        \/ AddOrUpdate(w)
        \/ CommitInsert(w)
        \/ CommitUpdate(w)

SpecWorkers == InitWorkers /\ [][NextWorkers]_vars

\* a load that found no row for its key and whose insert met the other load's row
LostRace(w) ==
    /\ call.worker[w].pc = "IntegrityError"
    /\ FindRow(call.worker[w].view, call.worker[w].key) = 0
    /\ FindRow(db.local_authority_coverage, call.worker[w].key) # 0

\* two rows of one natural key in the table
DuplicateRows ==
    \E i, j \in 1..Len(db.local_authority_coverage) :
        /\ i # j
        /\ \A f \in {"year", "area_code", "cohort", "vaccine"} :
               db.local_authority_coverage[i][f] = db.local_authority_coverage[j][f]

\* C29: a load ends in a unique-constraint failure only after finding no row
\* for a key that another load inserted meanwhile, the table never holds two
\* rows of one key, and loads run strictly one after another never fail so.
C29_RaceOnlyWhenUnserialized ==
    call.op = "workers" =>
        /\ ~DuplicateRows
        /\ \A w \in Workers : call.worker[w].pc = "IntegrityError" => LostRace(w)
        /\ call.serialized => \A w \in Workers : call.worker[w].pc # "IntegrityError"

\* two unserialized loads both found no row for the same key; one committed
\* its insert and the other's failed on the unique constraint
C29_Witness ==
    /\ call.op = "workers"
    /\ ~call.serialized
    /\ \E w \in Workers, o \in Workers :
           /\ w # o
           /\ LostRace(w)
           /\ call.worker[o].pc = "committed"
           /\ call.worker[o].key = call.worker[w].key
           /\ FindRow(call.worker[o].view, call.worker[o].key) = 0

(***************************************************************************)
(* National sheets whose value columns name one vaccine twice              *)
(***************************************************************************)
SecondHeaders ==
    {"Coverage at 12 months Rotavirus (%)", "Number aged 12 months MMR1",
     "Coverage at 12 months MMR 1 (%)"}
SecondCells == {"612,000", "90.0"}
FirstCells == {"91.9", "[c]"}
CountryNames == {"England", "Scotland"}

\* a T1 sheet of one country row with two value columns
TwoColumnSheet(country, header, first, second) ==
    [name |-> DatasetName("T1_UK12m"),
     grid |-> << <<"Table 1: coverage at 12 months", NaN, NaN, NaN, NaN>>,
                 <<"Geographic area", "Notes", "Number aged 12 months",
                   "Coverage at 12 months MMR1 (%)", header>>,
                 <<country, NaN, "668,160", first, second>> >>]

NextNationalColumns ==
    /\ loads < MaxLoads
    /\ \E country \in CountryNames, header \in SecondHeaders,
          first \in FirstCells, second \in SecondCells :
           LoadNational(TwoColumnSheet(country, header, first, second))

SpecNationalColumns == InitLocalJoin /\ [][NextNationalColumns]_vars

\* the value columns of the sheet just loaded whose header resolves to the vaccine
SourceColumns(vaccine_code) ==
    {k \in 4..Len(call.file.grid[2]) : Match(cache, call.file.grid[2][k]) = vaccine_code}

\* the national rows stored for the country row of the sheet just loaded
LoadedNationalRows ==
    {i \in 1..Len(db.national_coverage) :
        /\ db.national_coverage[i].year = CurrentYear
        /\ db.national_coverage[i].cohort = 12
        /\ db.national_coverage[i].area_code = country_map(call.file.grid[3][1])}

\* C30: in one national load no two value columns of the sheet write the same
\* fact row, and the coverage_percentage stored for a key is the cleaned cell
\* of the one coverage column whose header resolves to the key's vaccine.
C30_OneColumnPerKey ==
    (call.op = "load_national_coverage_from_csv" /\ call.outcome = "committed")
        => \A i \in LoadedNationalRows :
               /\ Cardinality(SourceColumns(db.national_coverage[i].vaccine)) <= 1
               /\ \A k \in SourceColumns(db.national_coverage[i].vaccine) :
                      /\ Contains(call.file.grid[2][k], "Coverage")
                      /\ db.national_coverage[i].coverage_percentage
                             = clean_numeric_value(call.file.grid[3][k], 2)

====
